---- MODULE Spec2Model ----
(***************************************************************************)
(* Model of the move engine (jewel_ai.py), of the colour classifier        *)
(* (jewel_classifier.py), of the detector (jewel_detector.py) and of the    *)
(* main loop (main.py) and of the live display (live_display.py) of         *)
(* MS-Jewel-2-AI.                                                           *)
(*                                                                         *)
(* Python objects are modelled with a heap.  A grid (a list of 8 lists of   *)
(* 8 entries) is a record: cells says which entries are None (0) and which *)
(* name a jewel dict (1), region says which dicts they name: "orig", the    *)
(* dicts of the grid handed to the move engine, or "copy", the dicts that  *)
(* _create_grid_copy allocates (each copy is garbage once the call that    *)
(* made it returns, so the next copy takes its place).  The heap maps a    *)
(* region and a cell to the dict: heap[region][cell].  Two grids of the    *)
(* same region alias each other: a write through one shows in the other.   *)
(***************************************************************************)
EXTENDS Integers, Sequences, FiniteSets, TLC

VARIABLES
    grid,         \* the grid argument: cell -> 0 for None, 1 for a jewel dict
    heap,         \* cell -> jewel dict ('type', 'color', 'center') of the argument
    grid0,        \* ghost: the grid as it was when the call was made
    heap0,        \* ghost: the jewel dicts as they were when the call was made
    pc,           \* which method of JewelAI has returned last
    valid_moves,  \* the list returned by find_valid_moves
    ranked_moves, \* the list returned by rank_moves / analyze_board
    color,        \* the colour handed to identify_jewel_type
    best_match,   \* the value returned by identify_jewel_type
    img,          \* the image captured in this cycle (main.py), or NoImage
    contours,     \* the list returned by find_contours
    jewels,       \* the list returned by extract_jewel_info
    jewel_grid,   \* the grid of the detector and of main: NoGrid, or its cells and dicts
    delay,        \* the seconds the main loop slept since the last cycle began, 0 if it did not
    calls,        \* ghost: the calls, waits and interrupt of the current cycle, in order
    seen,         \* ghost: image -> what the first completed cycle on that image produced
    first_run,    \* ghost: the grid after the first run of assembly and classification
    passes,       \* how many times the assembly passes have run on jewel_grid
    current_image, \* LiveDisplay.current_image: NoFrame (None) or a frame
    lock,          \* LiveDisplay.lock: "free", or the thread that holds it
    is_running,    \* LiveDisplay.is_running
    display_pc,    \* where the display thread is in _display_loop
    analysis_pc,   \* where the analysis thread is: start, a cycle, update_image, stop
    display_img,   \* the copy the display thread shows
    frame,         \* the image handed to update_image: its number and size
    last_update    \* ghost: what update_image stored last, NoFrame if it never did

\* the state of the move engine and of the classifier
engine_vars == <<grid, heap, grid0, heap0, valid_moves, color, best_match>>

\* the state of the detection pipeline and of the main loop
pipeline_vars == <<img, contours, jewels, jewel_grid, delay, calls, seen, first_run, passes>>

\* the state of the live display and of its two threads
display_vars == <<current_image, lock, is_running, display_pc, analysis_pc,
                  display_img, frame, last_update>>

vars == <<grid, heap, grid0, heap0, pc, valid_moves, ranked_moves, color, best_match,
          img, contours, jewels, jewel_grid, delay, calls, seen, first_run, passes,
          current_image, lock, is_running, display_pc, analysis_pc,
          display_img, frame, last_update>>

-----------------------------------------------------------------------------
(* Program constants *)

\* range(8): the board is 8x8
N == 8

\* the run length that makes a match
MatchLen == 3

None == 0

\* the keys of color_ranges, in declaration order
Categories == <<"red", "blue", "green", "yellow", "purple">>

CategorySet == {Categories[i] : i \in 1..Len(Categories)}

\* directions = [('right', 0, 1), ('down', 1, 0), ('left', 0, -1), ('up', -1, 0)]
directions == << [direction |-> "right", dr |-> 0,  dc |-> 1],
                 [direction |-> "down",  dr |-> 1,  dc |-> 0],
                 [direction |-> "left",  dr |-> 0,  dc |-> -1],
                 [direction |-> "up",    dr |-> -1, dc |-> 0] >>

Idx(row, col) == row * N + col

Cells == 0..(N * N - 1)

Jewel == 1

InBounds(row, col) == 0 <= row /\ row < N /\ 0 <= col /\ col < N

\* what the heap holds at a cell that is None
NoJewel == [type |-> "", color |-> <<0, 0, 0>>, center |-> <<0, 0>>]

\* img is None, jewel_grid is None
NoImage == [size |-> <<0, 0>>]
NoGrid == [cells |-> <<>>, dicts |-> <<>>]

\* the pipeline before anything ran
PipelineIdle ==
    /\ img = NoImage
    /\ contours = <<>>
    /\ jewels = <<>>
    /\ jewel_grid = NoGrid
    /\ delay = 0
    /\ calls = <<>>
    /\ seen = {}
    /\ first_run = NoGrid
    /\ passes = 0

\* self.current_image = None
NoFrame == [number |-> 0, size |-> <<0, 0>>]

\* LiveDisplay.__init__: no thread, no image, the lock free
DisplayIdle ==
    /\ current_image = NoFrame
    /\ lock = "free"
    /\ is_running = FALSE
    /\ display_pc = "unborn"
    /\ analysis_pc = "init"
    /\ display_img = NoFrame
    /\ frame = NoFrame
    /\ last_update = NoFrame

-----------------------------------------------------------------------------
(* jewel_ai.py: the move engine *)

\* grid[row][col] is None
IsNone(g, row, col) == g.cells[Idx(row, col)] = None

\* grid[row][col].get('type', '')
TypeAt(h, g, row, col) == h[g.region][Idx(row, col)].type

\* dict.copy() of every jewel of the grid into a new 8x8 list of lists
\* (the buggy variant stores the jewel itself: the copy aliases the input)
CreateGridCopyAliased(h, g) == [heap |-> h, grid |-> g]

CreateGridCopy(h, g) ==
    [heap |-> [h EXCEPT !.copy = h[g.region]],
     grid |-> [region |-> "copy", cells |-> g.cells]]

\* a, b = b, a on the 'type' key of the two jewels
SwapTypes(h, g, row1, col1, row2, col2) ==
    LET type1 == TypeAt(h, g, row1, col1)
        type2 == TypeAt(h, g, row2, col2)
    IN  [h EXCEPT ![g.region][Idx(row1, col1)].type = type2,
                  ![g.region][Idx(row2, col2)].type = type1]

\* the condition of the four while loops: the cell is not None and of type
\* jewel_type
Same(h, g, row, col, jewel_type) ==
    /\ g.cells[row * N + col] # None
    /\ h[g.region][row * N + col].type = jewel_type

\* c = col - 1; while c >= 0 and ...: count += 1; c -= 1
\* (the buggy variant stops in front of column 0)
RECURSIVE CountLeftShort(_, _, _, _, _)
CountLeftShort(h, g, row, c, jewel_type) ==
    IF c > 0 /\ Same(h, g, row, c, jewel_type)
    THEN 1 + CountLeftShort(h, g, row, c - 1, jewel_type)
    ELSE 0

RECURSIVE CountLeft(_, _, _, _, _)
CountLeft(h, g, row, c, jewel_type) ==
    IF c >= 0 /\ Same(h, g, row, c, jewel_type)
    THEN 1 + CountLeft(h, g, row, c - 1, jewel_type)
    ELSE 0

\* c = col + 1; while c < 8 and ...: count += 1; c += 1
RECURSIVE CountRight(_, _, _, _, _)
CountRight(h, g, row, c, jewel_type) ==
    IF c < N /\ Same(h, g, row, c, jewel_type)
    THEN 1 + CountRight(h, g, row, c + 1, jewel_type)
    ELSE 0

\* r = row - 1; while r >= 0 and ...: count += 1; r -= 1
RECURSIVE CountUp(_, _, _, _, _)
CountUp(h, g, r, col, jewel_type) ==
    IF r >= 0 /\ Same(h, g, r, col, jewel_type)
    THEN 1 + CountUp(h, g, r - 1, col, jewel_type)
    ELSE 0

\* r = row + 1; while r < 8 and ...: count += 1; r += 1
RECURSIVE CountDown(_, _, _, _, _)
CountDown(h, g, r, col, jewel_type) ==
    IF r < N /\ Same(h, g, r, col, jewel_type)
    THEN 1 + CountDown(h, g, r + 1, col, jewel_type)
    ELSE 0

\* count = 1, then the left and right loops
HCount(h, g, row, col) ==
    LET jewel_type == TypeAt(h, g, row, col)
    IN  1 + CountLeft(h, g, row, col - 1, jewel_type)
          + CountRight(h, g, row, col + 1, jewel_type)

\* count = 1, then the up and down loops
\* (the buggy variant forgets the loop downwards)
VCountUpOnly(h, g, row, col) ==
    LET jewel_type == TypeAt(h, g, row, col)
    IN  1 + CountUp(h, g, row - 1, col, jewel_type)

VCount(h, g, row, col) ==
    LET jewel_type == TypeAt(h, g, row, col)
    IN  1 + CountUp(h, g, row - 1, col, jewel_type)
          + CountDown(h, g, row + 1, col, jewel_type)

\* (the buggy variant forgets the vertical check)
CheckForMatchesRowOnly(h, g, row, col) ==
    IF IsNone(g, row, col) THEN FALSE
    ELSE HCount(h, g, row, col) >= MatchLen

CheckForMatches(h, g, row, col) ==
    IF IsNone(g, row, col) THEN FALSE
    ELSE IF HCount(h, g, row, col) >= MatchLen THEN TRUE
    ELSE VCount(h, g, row, col) >= MatchLen

\* returns the answer and the heap the call leaves behind
\* (the buggy variant looks for a match at the first position only)
IsValidMoveFromOnly(h, g, row1, col1, row2, col2) ==
    IF IsNone(g, row1, col1) \/ IsNone(g, row2, col2)
    THEN [ok |-> FALSE, heap |-> h]
    ELSE IF TypeAt(h, g, row1, col1) = TypeAt(h, g, row2, col2)
    THEN [ok |-> FALSE, heap |-> h]
    ELSE LET cp == CreateGridCopy(h, g)
             h2 == SwapTypes(cp.heap, cp.grid, row1, col1, row2, col2)
         IN  [ok   |-> CheckForMatches(h2, cp.grid, row1, col1),
              heap |-> h2]

IsValidMove(h, g, row1, col1, row2, col2) ==
    IF IsNone(g, row1, col1) \/ IsNone(g, row2, col2)
    THEN [ok |-> FALSE, heap |-> h]
    ELSE IF TypeAt(h, g, row1, col1) = TypeAt(h, g, row2, col2)
    THEN [ok |-> FALSE, heap |-> h]
    ELSE LET cp == CreateGridCopy(h, g)
             h2 == SwapTypes(cp.heap, cp.grid, row1, col1, row2, col2)
         IN  [ok   |-> CheckForMatches(h2, cp.grid, row1, col1)
                       \/ CheckForMatches(h2, cp.grid, row2, col2),
              heap |-> h2]

\* the body of the innermost loop of find_valid_moves; acc is the list
\* valid_moves so far and the heap
\* (the buggy variant tests new_row < 8 and new_col < 8 only; Python's
\* grid[-1] is the last row, row[-1] the last column)
TryDirectionWrap(acc, g, row, col, d) ==
    LET new_row == row + d.dr
        new_col == col + d.dc
    IN  IF ~(new_row < N /\ new_col < N) THEN acc
        ELSE LET res == IsValidMove(acc.heap, g, row, col,
                                    (new_row + N) % N, (new_col + N) % N)
             IN  [moves |-> IF res.ok
                            THEN Append(acc.moves,
                                        [from_row |-> row, from_col |-> col,
                                         to_row |-> new_row, to_col |-> new_col,
                                         direction |-> d.direction])
                            ELSE acc.moves,
                  heap  |-> res.heap]

TryDirection(acc, g, row, col, d) ==
    LET new_row == row + d.dr
        new_col == col + d.dc
    IN  IF ~InBounds(new_row, new_col) THEN acc
        ELSE LET res == IsValidMove(acc.heap, g, row, col, new_row, new_col)
             IN  [moves |-> IF res.ok
                            THEN Append(acc.moves,
                                        [from_row |-> row, from_col |-> col,
                                         to_row |-> new_row, to_col |-> new_col,
                                         direction |-> d.direction])
                            ELSE acc.moves,
                  heap  |-> res.heap]

\* for direction, dr, dc in directions
RECURSIVE ForDirections(_, _, _, _, _)
ForDirections(k, acc, g, row, col) ==
    IF k > Len(directions) THEN acc
    ELSE LET next == TryDirection(acc, g, row, col, directions[k])
         IN  IF Len(next.moves) >= 0
             THEN ForDirections(k + 1, next, g, row, col)
             ELSE acc

\* for col in range(8)
RECURSIVE ForCols(_, _, _, _)
ForCols(col, acc, g, row) ==
    IF col = N THEN acc
    ELSE LET next == ForDirections(1, acc, g, row, col)
         IN  IF Len(next.moves) >= 0 THEN ForCols(col + 1, next, g, row) ELSE acc

\* for row in range(8)
RECURSIVE ForRows(_, _, _)
ForRows(row, acc, g) ==
    IF row = N THEN acc
    ELSE LET next == ForCols(0, acc, g, row)
         IN  IF Len(next.moves) >= 0 THEN ForRows(row + 1, next, g) ELSE acc

FindValidMoves(h, g) == ForRows(0, [moves |-> <<>>, heap |-> h], g)

\* one position of the loop over [(row1, col1), (row2, col2)]
\* (the faulty variant leaves out the vertical run)
PositionScoreRowOnly(h, g, row, col) ==
    IF IsNone(g, row, col) THEN 0
    ELSE LET h_count == HCount(h, g, row, col)
         IN  IF h_count >= MatchLen THEN h_count * h_count ELSE 0

PositionScore(h, g, row, col) ==
    IF IsNone(g, row, col) THEN 0
    ELSE LET h_count == HCount(h, g, row, col)
             v_count == VCount(h, g, row, col)
         IN  (IF h_count >= MatchLen THEN h_count * h_count ELSE 0)
             + (IF v_count >= MatchLen THEN v_count * v_count ELSE 0)

\* (the buggy variant adds the run length, not its square)
CalculateMoveScoreLinear(h, g, row1, col1, row2, col2) ==
    LET Lin(row, col) ==
            IF IsNone(g, row, col) THEN 0
            ELSE LET h_count == HCount(h, g, row, col)
                     v_count == VCount(h, g, row, col)
                 IN  (IF h_count >= MatchLen THEN h_count ELSE 0)
                     + (IF v_count >= MatchLen THEN v_count ELSE 0)
    IN  Lin(row1, col1) + Lin(row2, col2)

CalculateMoveScore(h, g, row1, col1, row2, col2) ==
    PositionScore(h, g, row1, col1) + PositionScore(h, g, row2, col2)

\* list.sort(key=score, reverse=True): a stable sort, descending; as an
\* insertion of each element behind every element whose score is not smaller
\* (the buggy variant puts it in front of the elements of equal score)
InsertByScoreFront(sorted, m) ==
    LET p == Cardinality({i \in 1..Len(sorted) : sorted[i].score > m.score})
    IN  SubSeq(sorted, 1, p) \o <<m>> \o SubSeq(sorted, p + 1, Len(sorted))

InsertByScore(sorted, m) ==
    LET p == Cardinality({i \in 1..Len(sorted) : sorted[i].score >= m.score})
    IN  SubSeq(sorted, 1, p) \o <<m>> \o SubSeq(sorted, p + 1, Len(sorted))

\* the elements lo..hi of moves, inserted one after the other (the range is
\* halved to keep the evaluation shallow; the order of insertion is lo..hi)
RECURSIVE SortByScore(_, _, _, _)
SortByScore(lo, hi, moves, sorted) ==
    IF lo > hi THEN sorted
    ELSE IF lo = hi THEN InsertByScore(sorted, moves[lo])
    ELSE LET mid == (lo + hi) \div 2
             first == SortByScore(lo, mid, moves, sorted)
         IN  IF Len(first) >= 0 THEN SortByScore(mid + 1, hi, moves, first) ELSE sorted

\* the body of the loop of rank_moves; acc is the list scored_moves so far
\* and the heap
\* (the faulty variant scores the from cell twice and the to cell never)
ScoreMoveFromCell(acc, g, move) ==
    LET cp == CreateGridCopy(acc.heap, g)
        h2 == SwapTypes(cp.heap, cp.grid, move.from_row, move.from_col,
                        move.to_row, move.to_col)
        score == CalculateMoveScore(h2, cp.grid, move.from_row, move.from_col,
                                    move.from_row, move.from_col)
    IN  [moves |-> Append(acc.moves,
                          [from_row |-> move.from_row, from_col |-> move.from_col,
                           to_row |-> move.to_row, to_col |-> move.to_col,
                           direction |-> move.direction, score |-> score]),
         heap  |-> h2]

ScoreMove(acc, g, move) ==
    LET cp == CreateGridCopy(acc.heap, g)
        h2 == SwapTypes(cp.heap, cp.grid, move.from_row, move.from_col,
                        move.to_row, move.to_col)
        score == CalculateMoveScore(h2, cp.grid, move.from_row, move.from_col,
                                    move.to_row, move.to_col)
    IN  [moves |-> Append(acc.moves,
                          [from_row |-> move.from_row, from_col |-> move.from_col,
                           to_row |-> move.to_row, to_col |-> move.to_col,
                           direction |-> move.direction, score |-> score]),
         heap  |-> h2]

\* for move in valid_moves, over the moves lo..hi in order (the range is
\* halved to keep the evaluation shallow)
RECURSIVE ForMoves(_, _, _, _, _)
ForMoves(lo, hi, acc, g, moves) ==
    IF lo > hi THEN acc
    ELSE IF lo = hi THEN ScoreMove(acc, g, moves[lo])
    ELSE LET mid == (lo + hi) \div 2
             first == ForMoves(lo, mid, acc, g, moves)
         IN  IF Len(first.moves) >= 0 THEN ForMoves(mid + 1, hi, first, g, moves) ELSE acc

RankMoves(h, g, moves) ==
    LET res == ForMoves(1, Len(moves), [moves |-> <<>>, heap |-> h], g, moves)
    IN  [moves |-> SortByScore(1, Len(res.moves), res.moves, <<>>), heap |-> res.heap]

\* find_valid_moves, then rank_moves on its result; the visualization only
\* reads the grid
AnalyzeBoard(h, g) ==
    LET found == FindValidMoves(h, g)
    IN  RankMoves(found.heap, g, found.moves)

-----------------------------------------------------------------------------
(* The grids handed to the move engine *)

\* bound of the family of boards: the longest stroke laid over a pattern
MaxStroke == 2

\* BOARD_BOTTOM_RIGHT - BOARD_TOP_LEFT: width and height of the captured image
CaptureSize == <<1660 - 825, 1167 - 304>>

\* what classify_jewels leaves in a cell: a type among the five categories,
\* a colour the classifier maps to that type, the centre of the detection
TypicalColor(t) ==
    CASE t = "red"    -> <<60, 60, 192>>
      [] t = "blue"   -> <<187, 110, 60>>
      [] t = "green"  -> <<110, 192, 110>>
      [] t = "yellow" -> <<60, 192, 192>>
      [] t = "purple" -> <<187, 60, 187>>
      [] OTHER        -> <<0, 0, 0>>

\* int((col + 0.5) * grid_width), int((row + 0.5) * grid_height)
IdealCenter(row, col) ==
    << ((2 * col + 1) * CaptureSize[1]) \div (2 * N),
       ((2 * row + 1) * CaptureSize[2]) \div (2 * N) >>

\* background patterns: one colour everywhere; two colours in the rhythm
\* A A B shifted by one each row (no run of three, many swaps that make one);
\* five colours on the diagonals (no run and no swap that makes one)
Patterns == {"uniform", "rhythm", "diagonal"}

Pattern(p, row, col) ==
    CASE p = "uniform"  -> "red"
      [] p = "rhythm"   -> IF (row + col) % 3 = 2 THEN "blue" ELSE "red"
      [] p = "diagonal" -> Categories[((row + 2 * col) % 5) + 1]

StrokeValues == {"", "blue"}

\* a stroke: len cells from (row, col), rightwards or downwards (cut at the
\* edge of the board), set to value ("" empties them)
Strokes ==
    [row : 0..(N - 1), col : 0..(N - 1), down : BOOLEAN,
     len : 0..MaxStroke, value : StrokeValues]

OnStroke(s, row, col) ==
    IF s.down
    THEN col = s.col /\ s.row <= row /\ row < s.row + s.len
    ELSE row = s.row /\ s.col <= col /\ col < s.col + s.len

Board(p, s) ==
    [i \in Cells |-> IF OnStroke(s, i \div N, i % N) THEN s.value
                     ELSE Pattern(p, i \div N, i % N)]

Boards == {Board(p, s) : p \in Patterns, s \in Strokes}

GridOf(b) == [i \in Cells |-> IF b[i] = "" THEN None ELSE Jewel]

HeapOf(b) ==
    [i \in Cells |->
        IF b[i] = "" THEN NoJewel
        ELSE [type |-> b[i], color |-> TypicalColor(b[i]),
              center |-> IdealCenter(i \div N, i % N)]]

\* the heap during a call: the jewels of the caller and room for one grid copy
Extend(h) == [orig |-> h, copy |-> [i \in Cells |-> NoJewel]]
Restrict(h) == h.orig

\* the grid argument of a call
Arg(g) == [region |-> "orig", cells |-> g]

-----------------------------------------------------------------------------
(* The state machine of the move engine *)

Init ==
    \E b \in Boards :
        /\ grid = GridOf(b)
        /\ heap = HeapOf(b)
        /\ grid0 = GridOf(b)
        /\ heap0 = HeapOf(b)
        /\ pc = "start"
        /\ valid_moves = <<>>
        /\ ranked_moves = <<>>
        /\ color = <<0, 0, 0>>
        /\ best_match = "unset"
        /\ PipelineIdle
        /\ DisplayIdle

find_valid_moves ==
    /\ pc = "start"
    /\ LET res == FindValidMoves(Extend(heap), Arg(grid))
       IN  /\ valid_moves' = res.moves
           /\ heap' = Restrict(res.heap)
    /\ pc' = "found"
    /\ UNCHANGED <<grid, grid0, heap0, ranked_moves, color, best_match>>
    /\ UNCHANGED <<pipeline_vars, display_vars>>

rank_moves ==
    /\ pc = "found"
    /\ LET res == RankMoves(Extend(heap), Arg(grid), valid_moves)
       IN  /\ ranked_moves' = res.moves
           /\ heap' = Restrict(res.heap)
    /\ pc' = "ranked"
    /\ UNCHANGED <<grid, grid0, heap0, valid_moves, color, best_match>>
    /\ UNCHANGED <<pipeline_vars, display_vars>>

analyze_board ==
    /\ pc = "start"
    /\ LET res == AnalyzeBoard(Extend(heap), Arg(grid))
       IN  /\ ranked_moves' = res.moves
           /\ heap' = Restrict(res.heap)
    /\ pc' = "analyzed"
    /\ UNCHANGED <<grid, grid0, heap0, valid_moves, color, best_match>>
    /\ UNCHANGED <<pipeline_vars, display_vars>>

Next == find_valid_moves \/ rank_moves \/ analyze_board

Spec == Init /\ [][Next]_vars

-----------------------------------------------------------------------------
(* jewel_classifier.py: the colour classifier *)

\* self.color_ranges, in declaration order (BGR)
color_ranges ==
    << [name |-> "red",    lower |-> <<0, 0, 130>>,   upper |-> <<120, 120, 255>>],
       [name |-> "blue",   lower |-> <<120, 40, 0>>,  upper |-> <<255, 180, 120>>],
       [name |-> "green",  lower |-> <<40, 130, 40>>, upper |-> <<180, 255, 180>>],
       [name |-> "yellow", lower |-> <<0, 130, 130>>, upper |-> <<120, 255, 255>>],
       [name |-> "purple", lower |-> <<120, 0, 120>>, upper |-> <<255, 120, 255>>] >>

\* np.all(color >= ranges['lower']) and np.all(color <= ranges['upper'])
InRange(c, ranges) ==
    \A i \in 1..3 : c[i] >= ranges.lower[i] /\ c[i] <= ranges.upper[i]

\* np.sum((color - center) ** 2) with center = (lower + upper) / 2, times 4:
\* the centre has halves, 2 * (color - center) is the integer
\* 2 * color - (lower + upper), and every value is exact in floating point, so
\* comparing the distances is comparing four times the distances
Distance4(c, ranges) ==
    LET d(i) == 2 * c[i] - (ranges.lower[i] + ranges.upper[i])
    IN  d(1) * d(1) + d(2) * d(2) + d(3) * d(3)

\* float('inf') is the empty tuple, a distance d is <<d>>
Infinity == <<>>

\* if distance < min_distance
\* (the buggy variant keeps the first candidate whatever its distance)
CloserFirstOnly(distance, min_distance) == min_distance = Infinity

Closer(distance, min_distance) ==
    min_distance = Infinity \/ distance < min_distance[1]

\* the first loop: the ranges that contain the colour
RECURSIVE FirstLoop(_, _, _)
FirstLoop(k, c, acc) ==
    IF k > Len(color_ranges) THEN acc
    ELSE LET ranges == color_ranges[k]
             distance == Distance4(c, ranges)
         IN  IF InRange(c, ranges) /\ Closer(distance, acc.min_distance)
             THEN FirstLoop(k + 1, c, [best_match |-> ranges.name, min_distance |-> <<distance>>])
             ELSE FirstLoop(k + 1, c, acc)

\* the fallback loop: every range
\* (the buggy variant replaces the best match on an equal distance too)
RECURSIVE FallbackLoopLastOfTie(_, _, _)
FallbackLoopLastOfTie(k, c, acc) ==
    IF k > Len(color_ranges) THEN acc
    ELSE LET ranges == color_ranges[k]
             distance == Distance4(c, ranges)
         IN  IF acc.min_distance = Infinity \/ distance <= acc.min_distance[1]
             THEN FallbackLoopLastOfTie(k + 1, c, [best_match |-> ranges.name, min_distance |-> <<distance>>])
             ELSE FallbackLoopLastOfTie(k + 1, c, acc)

RECURSIVE FallbackLoop(_, _, _)
FallbackLoop(k, c, acc) ==
    IF k > Len(color_ranges) THEN acc
    ELSE LET ranges == color_ranges[k]
             distance == Distance4(c, ranges)
         IN  IF Closer(distance, acc.min_distance)
             THEN FallbackLoop(k + 1, c, [best_match |-> ranges.name, min_distance |-> <<distance>>])
             ELSE FallbackLoop(k + 1, c, acc)

\* (the buggy variant has no fallback: None when no range contains the colour)
IdentifyJewelTypeNoFallback(c) ==
    FirstLoop(1, c, [best_match |-> "None", min_distance |-> Infinity]).best_match

IdentifyJewelType(c) ==
    LET first == FirstLoop(1, c, [best_match |-> "None", min_distance |-> Infinity])
    IN  IF first.best_match = "None"
        THEN FallbackLoop(1, c, first).best_match
        ELSE first.best_match

-----------------------------------------------------------------------------
(* The colours handed to the classifier *)

\* bound of the family of colours: how far from a bound of a range a channel
\* value is taken
ColourMargin == 1

\* the channel values at which some range begins or ends, or has its centre
RangeBounds ==
    UNION {{color_ranges[k].lower[i], color_ranges[k].upper[i],
            (color_ranges[k].lower[i] + color_ranges[k].upper[i]) \div 2} :
              k \in 1..Len(color_ranges), i \in 1..3}

ChannelValues ==
    {v \in 0..255 : \E b \in RangeBounds : v - b <= ColourMargin /\ b - v <= ColourMargin}

Colours == ChannelValues \X ChannelValues \X ChannelValues

InitClassifier ==
    /\ color \in Colours
    /\ best_match = "unset"
    /\ pc = "start"
    /\ grid = [i \in Cells |-> None]
    /\ heap = [i \in Cells |-> NoJewel]
    /\ grid0 = grid
    /\ heap0 = heap
    /\ valid_moves = <<>>
    /\ ranked_moves = <<>>
    /\ PipelineIdle
    /\ DisplayIdle

identify_jewel_type ==
    /\ pc = "start"
    /\ best_match' = IdentifyJewelType(color)
    /\ pc' = "identified"
    /\ UNCHANGED <<grid, heap, grid0, heap0, valid_moves, ranked_moves, color>>
    /\ UNCHANGED <<pipeline_vars, display_vars>>

NextClassifier == identify_jewel_type

SpecClassifier == InitClassifier /\ [][NextClassifier]_vars

-----------------------------------------------------------------------------
(* Vocabulary of the properties of the move engine *)

\* the categories of the grid as it was handed in: cell -> category, "" for
\* an empty cell
InputTypes == [i \in Cells |-> IF grid0[i] = None THEN "" ELSE heap0[i].type]

\* the categories after swapping the categories of cells a and b
Swapped(T, a, b) == [T EXCEPT ![a] = T[b], ![b] = T[a]]

\* three consecutive cells of the row (column) of a non-empty cell, the cell
\* among them, all of its category
RowOfThree(T, row, col) ==
    \E start \in (col - 2)..col :
        /\ start >= 0 /\ start + 2 < N
        /\ \A k \in start..(start + 2) : T[row * N + k] = T[row * N + col]

ColOfThree(T, row, col) ==
    \E start \in (row - 2)..row :
        /\ start >= 0 /\ start + 2 < N
        /\ \A k \in start..(start + 2) : T[k * N + col] = T[row * N + col]

RunOfThree(T, row, col) == RowOfThree(T, row, col) \/ ColOfThree(T, row, col)

\* the length of the maximal stretch of the row (column) around a non-empty
\* cell whose cells all have its category
Between(a, b) == IF a <= b THEN a..b ELSE b..a

RowRun(T, row, col) ==
    Cardinality({k \in 0..(N - 1) :
                    \A j \in Between(k, col) : T[row * N + j] = T[row * N + col]})

ColRun(T, row, col) ==
    Cardinality({k \in 0..(N - 1) :
                    \A j \in Between(k, row) : T[j * N + col] = T[row * N + col]})

\* what a run of length len adds to a score
Gain(len) == IF len >= MatchLen THEN len * len ELSE 0

ExpectedScore(T, m) ==
    LET S == Swapped(T, m.from_row * N + m.from_col, m.to_row * N + m.to_col)
    IN  Gain(RowRun(S, m.from_row, m.from_col)) + Gain(ColRun(S, m.from_row, m.from_col))
        + Gain(RowRun(S, m.to_row, m.to_col)) + Gain(ColRun(S, m.to_row, m.to_col))

Range(seq) == {seq[k] : k \in 1..Len(seq)}

\* the place of a move in the enumeration: row-major over the from cell, then
\* right, down, left, up
DirectionIndex(name) == CHOOSE k \in 1..Len(directions) : directions[k].direction = name

EnumIndex(m) == (m.from_row * N + m.from_col) * Len(directions) + DirectionIndex(m.direction)

Returned == pc \in {"ranked", "analyzed"}

-----------------------------------------------------------------------------
(* Properties of the move engine *)

\* the swap of cell from with its neighbour in direction k makes a run
SwapMakesRun(T, from, to) ==
    /\ T[from] # "" /\ T[to] # ""
    /\ T[from] # T[to]
    /\ LET S == Swapped(T, from, to)
       IN  RunOfThree(S, from \div N, from % N) \/ RunOfThree(S, to \div N, to % N)

\* C1: when find_valid_moves has returned, for every cell and every direction
\* whose neighbour is on the board, the move is in the list if and only if
\* both cells are non-empty, their categories differ and, with the two
\* categories swapped, three consecutive cells of one category lie in the row
\* or the column of the from cell or of the to cell and contain it.
C1_ValidIffRun ==
    pc = "found" =>
        LET T == InputTypes
            found == Range(valid_moves)
        IN  \A from \in Cells : \A k \in 1..Len(directions) :
                LET d == directions[k]
                    to_row == (from \div N) + d.dr
                    to_col == (from % N) + d.dc
                IN  InBounds(to_row, to_col) =>
                        (([from_row |-> from \div N, from_col |-> from % N,
                           to_row |-> to_row, to_col |-> to_col,
                           direction |-> d.direction] \in found)
                         <=> SwapMakesRun(T, from, to_row * N + to_col))

\* a grid with an empty cell, a valid move whose only run is a column run
\* through the to cell, and a swap of two different categories that is no move
C1_Witness ==
    /\ pc = "found"
    /\ \E i \in Cells : grid0[i] = None
    /\ \E m \in Range(valid_moves) :
          LET S == Swapped(InputTypes, m.from_row * N + m.from_col, m.to_row * N + m.to_col)
          IN  /\ ~RunOfThree(S, m.from_row, m.from_col)
              /\ ~RowOfThree(S, m.to_row, m.to_col)
              /\ ColOfThree(S, m.to_row, m.to_col)
    /\ \E from \in Cells :
          /\ (from % N) < N - 1
          /\ InputTypes[from] # "" /\ InputTypes[from + 1] # ""
          /\ InputTypes[from] # InputTypes[from + 1]
          /\ \A m \in Range(valid_moves) :
                ~(m.from_row = from \div N /\ m.from_col = from % N /\ m.direction = "right")

\* C2: every move in the list of find_valid_moves and in the list of
\* rank_moves has its four coordinates in 0..7.
C2_InBounds ==
    \A m \in Range(valid_moves) \cup Range(ranked_moves) :
        InBounds(m.from_row, m.from_col) /\ InBounds(m.to_row, m.to_col)

\* ranked moves that start on each of the four edges of the board, where one
\* of the four neighbours is off the board
C2_Witness ==
    /\ Returned
    /\ \E m \in Range(ranked_moves) : m.from_row = 0
    /\ \E m \in Range(ranked_moves) : m.from_col = 0
    /\ \E m \in Range(ranked_moves) : m.from_row = N - 1
    /\ \E m \in Range(ranked_moves) : m.from_col = N - 1

\* C3: the score of every ranked move is the sum, over the two swapped
\* positions and the two axes of the grid after the swap, of the square of
\* the run length through the position when it is at least 3, and of 0
\* otherwise.
C3_ScoreIsSumOfSquares ==
    Returned =>
        LET T == InputTypes
        IN  \A m \in Range(ranked_moves) : m.score = ExpectedScore(T, m)

\* a ranked move to whose score both positions contribute, one of them on
\* both axes
C3_Witness ==
    /\ Returned
    /\ \E m \in Range(ranked_moves) :
          LET S == Swapped(InputTypes, m.from_row * N + m.from_col, m.to_row * N + m.to_col)
          IN  /\ RowRun(S, m.from_row, m.from_col) >= MatchLen
              /\ ColRun(S, m.from_row, m.from_col) >= MatchLen
              /\ \/ RowRun(S, m.to_row, m.to_col) >= MatchLen
                 \/ ColRun(S, m.to_row, m.to_col) >= MatchLen
              /\ m.score = ExpectedScore(InputTypes, m)

\* C4: the ranked list is in non-increasing order of score, and two moves of
\* equal score are in the order of the enumeration (row-major over the from
\* cell, then right, down, left, up).
C4_StableDescending ==
    Returned =>
        \A i, j \in 1..Len(ranked_moves) :
            i < j =>
                \/ ranked_moves[i].score > ranked_moves[j].score
                \/ /\ ranked_moves[i].score = ranked_moves[j].score
                   /\ EnumIndex(ranked_moves[i]) < EnumIndex(ranked_moves[j])

\* a ranked list with two moves of equal score and with a move that the sort
\* has put in front of a move enumerated before it
C4_Witness ==
    /\ Returned
    /\ \E i, j \in 1..Len(ranked_moves) :
          i < j /\ ranked_moves[i].score = ranked_moves[j].score
    /\ \E i, j \in 1..Len(ranked_moves) :
          /\ i < j
          /\ ranked_moves[i].score > ranked_moves[j].score
          /\ EnumIndex(ranked_moves[i]) > EnumIndex(ranked_moves[j])

\* C5: whatever has been called, the grid handed in is as it was: the same
\* cells are empty and every jewel has the type, the colour and the centre it
\* had.
C5_InputUnchanged == grid = grid0 /\ heap = heap0

\* analyze_board has returned moves: swaps were simulated to find them and
\* again to score them
C5_Witness ==
    /\ pc = "analyzed"
    /\ Len(ranked_moves) > 0
    /\ grid = grid0 /\ heap = heap0

\* the grid mirrored left-right or up-down: the cell that lands on cell i
MirrorCell(axis, i) ==
    IF axis = "lr" THEN (i \div N) * N + (N - 1 - (i % N))
    ELSE (N - 1 - (i \div N)) * N + (i % N)

MirrorDirection(axis, name) ==
    IF axis = "lr"
    THEN (CASE name = "right" -> "left" [] name = "left" -> "right" [] OTHER -> name)
    ELSE (CASE name = "down" -> "up" [] name = "up" -> "down" [] OTHER -> name)

MirrorMove(axis, m) ==
    LET from == MirrorCell(axis, m.from_row * N + m.from_col)
        to == MirrorCell(axis, m.to_row * N + m.to_col)
    IN  [from_row |-> from \div N, from_col |-> from % N,
         to_row |-> to \div N, to_col |-> to % N,
         direction |-> MirrorDirection(axis, m.direction), score |-> m.score]

\* what analyze_board returns for the mirrored grid
RankedOfMirror(axis) ==
    AnalyzeBoard(Extend([i \in Cells |-> heap0[MirrorCell(axis, i)]]),
                 Arg([i \in Cells |-> grid0[MirrorCell(axis, i)]])).moves

\* C6: the moves analyze_board ranks for a grid, with positions and direction
\* mirrored and the score kept, are exactly the moves it ranks for the
\* mirrored grid, for the left-right mirror and for the up-down mirror.
C6_MirrorSymmetry ==
    pc = "analyzed" =>
        \A axis \in {"lr", "ud"} :
            {MirrorMove(axis, m) : m \in Range(ranked_moves)} = Range(RankedOfMirror(axis))

\* a grid that is its own mirror on neither axis, with ranked moves in a
\* horizontal and in a vertical direction
C6_Witness ==
    /\ pc = "analyzed"
    /\ \A axis \in {"lr", "ud"} : \E i \in Cells : InputTypes[i] # InputTypes[MirrorCell(axis, i)]
    /\ \E m \in Range(ranked_moves) : m.direction = "right" /\ m.from_col = 0
    /\ \E m \in Range(ranked_moves) : m.direction = "down" /\ m.from_row = 0
    /\ {MirrorMove("lr", m) : m \in Range(ranked_moves)} = Range(RankedOfMirror("lr"))

\* the grid is full, cell b has one category and every other cell another one
SingleOdd(T, b) ==
    /\ \A i \in Cells : T[i] # ""
    /\ \A i \in Cells \ {b} : T[i] # T[b]
    /\ \A i, j \in Cells \ {b} : T[i] = T[j]

\* the horizontal neighbours of b with a second cell behind them on the board:
\* the run of two into which the jewel of b is swapped
RunsOfTwoBeside(b) ==
    {to \in {b - 1, b + 1} : to \div N = b \div N /\ (2 * to - b) \div N = b \div N
                             /\ 2 * to - b >= 0}

RankedWithScore(from, to, score) ==
    \E m \in Range(ranked_moves) :
        /\ m.from_row = from \div N /\ m.from_col = from % N
        /\ m.to_row = to \div N /\ m.to_col = to % N
        /\ m.direction = (IF to > from THEN "right" ELSE "left")
        /\ m.score = score

\* C7 as claimed: on a grid of one category but for one cell b, the swap of b
\* into a horizontal run of two beside it is ranked with score 9.
C7_AsClaimed ==
    Returned =>
        \A b \in Cells : SingleOdd(InputTypes, b) =>
            \A to \in RunsOfTwoBeside(b) : RankedWithScore(b, to, 9)

\* C7 amended: that swap is ranked with score 64, for the column of 8 through
\* the cell b leaves, plus the square of the horizontal run L through that
\* cell when L >= 3; L is 8 - col when b moves left and col + 1 when it moves
\* right.
C7_ScoreOfSwapIntoRun ==
    Returned =>
        \A b \in Cells : SingleOdd(InputTypes, b) =>
            \A to \in RunsOfTwoBeside(b) :
                RankedWithScore(b, to,
                    N * N + Gain(IF to < b THEN N - (b % N) ELSE (b % N) + 1))

\* the odd cell in column 2 is swapped into the run of exactly two on its left
C7_Witness ==
    /\ Returned
    /\ \E b \in Cells :
          /\ b % N = 2
          /\ SingleOdd(InputTypes, b)
          /\ b - 1 \in RunsOfTwoBeside(b)
          /\ RankedWithScore(b, b - 1, 100)

\* every cell is red but cell (0,0), which is blue
CornerBoard ==
    InputTypes = [i \in Cells |-> IF i = 0 THEN "blue" ELSE "red"]

\* C8 as claimed: on that board find_valid_moves returns no move.
C8_AsClaimed == (pc = "found" /\ CornerBoard) => valid_moves = <<>>

\* C8 amended: on that board find_valid_moves returns the four moves between
\* (0,0) and its two neighbours.
C8_CornerMoves ==
    (pc = "found" /\ CornerBoard) =>
        valid_moves =
            << [from_row |-> 0, from_col |-> 0, to_row |-> 0, to_col |-> 1, direction |-> "right"],
               [from_row |-> 0, from_col |-> 0, to_row |-> 1, to_col |-> 0, direction |-> "down"],
               [from_row |-> 0, from_col |-> 1, to_row |-> 0, to_col |-> 0, direction |-> "left"],
               [from_row |-> 1, from_col |-> 0, to_row |-> 0, to_col |-> 0, direction |-> "up"] >>

C8_Witness == pc = "found" /\ CornerBoard /\ Len(valid_moves) = 4

-----------------------------------------------------------------------------
(* Properties of the colour classifier *)

\* the places in the table of the ranges that contain the colour
Containing(c) == {k \in 1..Len(color_ranges) : InRange(c, color_ranges[k])}

\* four times the squared Euclidean distance from the colour to the centre of
\* range k
ToCentre(c, k) ==
    LET ranges == color_ranges[k]
        twice(i) == 2 * c[i] - ranges.lower[i] - ranges.upper[i]
    IN  twice(1) * twice(1) + twice(2) * twice(2) + twice(3) * twice(3)

\* k is the nearest range among those of S, the first of the nearest in the
\* order of the table
FirstNearest(c, k, S) ==
    /\ k \in S
    /\ \A j \in S : ToCentre(c, k) <= ToCentre(c, j)
    /\ \A j \in S : ToCentre(c, j) = ToCentre(c, k) => k <= j

\* C9: identify_jewel_type returns one of the five category names for every
\* colour of three channels in 0..255: never None, never "unknown".
C9_Total == pc = "identified" => best_match \in CategorySet

\* a colour that no range contains has been classified
C9_Witness ==
    /\ pc = "identified"
    /\ Containing(color) = {}
    /\ best_match \in CategorySet

C11_NearestOverall ==
    (pc = "identified" /\ Containing(color) = {}) =>
        \E k \in 1..Len(color_ranges) :
            /\ color_ranges[k].name = best_match
            /\ FirstNearest(color, k, 1..Len(color_ranges))

\* no range contains the colour, two centres are at the least distance, and
\* the first declared of the two is returned
C11_Witness ==
    /\ pc = "identified"
    /\ Containing(color) = {}
    /\ \E k, j \in 1..Len(color_ranges) :
          /\ k < j
          /\ ToCentre(color, k) = ToCentre(color, j)
          /\ FirstNearest(color, k, 1..Len(color_ranges))
          /\ color_ranges[k].name = best_match

-----------------------------------------------------------------------------
(* jewel_detector.py: the detector *)

(***************************************************************************)
(* An image is what the OpenCV and numpy calls of the detector make of it:  *)
(*   size    its width and height in pixels (img.shape);                    *)
(*   masks   whether create_masks produces a mask (FALSE: it returns None); *)
(*   blobs   the contours cv2.findContours finds in the mask, each with     *)
(*           twice its cv2.contourArea (areas are multiples of half a       *)
(*           pixel) and the centroid its cv2.moments give;                  *)
(*   tiles   for each cell what the detector samples in it: spot, the       *)
(*           median of the 30x30 window around a centroid; pool, the pixels *)
(*           of the nine 50x50 windows around the centre of the cell, each  *)
(*           pixel of the list standing for an equal share of them; wide,   *)
(*           the median of the 60x60 window of the first-column pass.  A    *)
(*           median whose channels sum to at most the darkness floor stands *)
(*           for a window without a pixel above the floor.  The 60x60       *)
(*           window holds the 30x30 one and lies within the nine pooled     *)
(*           ones, so a bright spot makes wide bright and a bright wide     *)
(*           puts a bright pixel in the pool.                               *)
(***************************************************************************)

\* if len(valid_contours) < 40
MinContours == 40

Width(image) == image.size[1]
Height(image) == image.size[2]

Min(a, b) == IF a < b THEN a ELSE b
Max(a, b) == IF a < b THEN b ELSE a

\* max(0, min(7, v))
Clamp(v) == Max(0, Min(N - 1, v))

\* int((col + 0.5) * grid_width), int((row + 0.5) * grid_height), where
\* grid_width = width / 8 and grid_height = height / 8 are floats: the
\* products are exact and int() drops the fraction
CellCenter(image, row, col) ==
    << ((2 * col + 1) * Width(image)) \div (2 * N),
       ((2 * row + 1) * Height(image)) \div (2 * N) >>

\* int(min(grid_width, grid_height) * 0.4)
CircleRadius(image) == (Min(Width(image), Height(image)) * 4) \div (N * 10)

\* min_contour_area < area < max_contour_area, with
\* expected_area = (grid_width * grid_height) * 0.5, min_contour_area =
\* expected_area * 0.1 and max_contour_area = expected_area * 2.0; the area is
\* area2 / 2, and both sides are multiplied by 2 * 8 * 8 * 10 (by 8 * 8)
AreaAccepted(image, c) ==
    /\ c.area2 * (N * N * 10) > Width(image) * Height(image)
    /\ c.area2 * (N * N) < 2 * Width(image) * Height(image)

\* valid_contours: the contours of the mask that pass the area filter, in order
ValidContours(image) == SelectSeq(image.blobs, LAMBDA c : AreaAccepted(image, c))

\* cv2.moments of a synthetic contour, then int(): the 36 points are
\* center + (int(radius * cos), int(radius * sin)) and int() truncates towards
\* zero, so the polygon is not quite symmetric; for radius 40 its centroid is
\* (0.014, -0.053) off the centre, for radius 41 it is the centre
CircleCentroid(center, radius) ==
    CASE radius = 40 -> <<center[1], center[2] - 1>>
      [] radius = 41 -> center

\* generate_grid_based_contours: one circle per cell, rows outside, columns inside
GenerateGridBasedContours(image) ==
    [k \in 1..(N * N) |->
        LET center == CellCenter(image, (k - 1) \div N, (k - 1) % N)
            radius == CircleRadius(image)
        IN  [circle |-> TRUE, center |-> center, radius |-> radius,
             moment |-> CircleCentroid(center, radius)]]

\* (the faulty variant never falls back to the synthetic contours)
FindContoursNoFallback(image) == ValidContours(image)

\* find_contours
FindContours(image) ==
    LET valid_contours == ValidContours(image)
    IN  IF Len(valid_contours) < MinContours
        THEN GenerateGridBasedContours(image)
        ELSE valid_contours

\* the cell whose pixels hold the point (x, y)
TileAt(image, x, y) ==
    Idx(Clamp((N * y) \div Height(image)), Clamp((N * x) \div Width(image)))

\* np.sum(pixels, axis=1) of a pixel
ChannelSum(c) == c[1] + c[2] + c[3]

\* what a sampling that found no pixel above the darkness floor yields
NoPixels == <<>>

\* the colour sampled around a centroid: the median of the pixels of the
\* window whose channels sum to more than 120, or of all its pixels when none
\* does: the spot colour of the tile
SampleCentroid(image, cX, cY) == image.tiles[TileAt(image, cX, cY)].spot

\* the k-th smallest of the values of a channel (sorting, counted from 1)
Kth(values, k) ==
    CHOOSE v \in {values[j] : j \in 1..Len(values)} :
        /\ Cardinality({j \in 1..Len(values) : values[j] < v}) < k
        /\ Cardinality({j \in 1..Len(values) : values[j] <= v}) >= k

\* twice np.median of the values of a channel: the middle one of an odd
\* number of values, the mean of the two middle ones of an even number
Median2(values) ==
    LET n == Len(values)
    IN  IF n % 2 = 1
        THEN 2 * Kth(values, (n + 1) \div 2)
        ELSE Kth(values, n \div 2) + Kth(values, n \div 2 + 1)

\* np.median(pixels, axis=0).astype(int): the median of each channel, the
\* half of a mean of two values dropped
MedianColor(pixels) ==
    [c \in 1..3 |-> Median2([j \in 1..Len(pixels) |-> pixels[j][c]]) \div 2]

\* non_dark_pixels = pixels[np.sum(pixels, axis=1) > 100]
NonDark(pixels) == SelectSeq(pixels, LAMBDA px : ChannelSum(px) > 100)

\* the pooled samples of the 9 windows around a cell centre: the pixels whose
\* channels sum to more than 100, their median
SamplePooled(image, row, col) ==
    LET all_samples == NonDark(image.tiles[Idx(row, col)].pool)
    IN  IF all_samples = <<>> THEN NoPixels ELSE MedianColor(all_samples)

\* the window of 30 pixels around (int(grid_width * 0.5), center_y): the
\* pixels whose channels sum to more than 100, their median
SampleWide(image, row) ==
    LET wide == image.tiles[Idx(row, 0)].wide
    IN  IF ChannelSum(wide) > 100 THEN wide ELSE NoPixels

\* region.size == 0: the window around the centroid, cut to the image, is empty
RegionEmpty(image, cX, cY) ==
    \/ Max(0, cY - 15) >= Min(Height(image), cY + 15)
    \/ Max(0, cX - 15) >= Min(Width(image), cX + 15)

\* a jewel dict; a key that a dict may lack is a flag (contour, synthetic,
\* special) or, for 'type', the empty string that .get('type', '') reads
JewelDict(id, row, col, center, c, contour, synthetic, special) ==
    [id |-> id, row |-> row, col |-> col, center |-> center, color |-> c,
     type |-> "", contour |-> contour, synthetic |-> synthetic, special |-> special]

\* the jewel extract_jewel_info appends for contour i (counted from 0)
\* (the faulty variant takes the row from x and the column from y)
ExtractedJewelTransposed(image, i, contour) ==
    LET cX == contour.moment[1]
        cY == contour.moment[2]
        col == Clamp((N * cY) \div Height(image))
        row == Clamp((N * cX) \div Width(image))
    IN  JewelDict(i, row, col, <<cX, cY>>, SampleCentroid(image, cX, cY),
                  TRUE, FALSE, FALSE)

ExtractedJewel(image, i, contour) ==
    LET cX == contour.moment[1]
        cY == contour.moment[2]
        col == Clamp((N * cX) \div Width(image))
        row == Clamp((N * cY) \div Height(image))
    IN  JewelDict(i, row, col, <<cX, cY>>, SampleCentroid(image, cX, cY),
                  TRUE, FALSE, FALSE)

\* extract_jewel_info: the jewels of the contours whose window is not empty
RECURSIVE ExtractFrom(_, _, _, _)
ExtractFrom(i, cs, image, acc) ==
    IF i >= Len(cs) THEN acc
    ELSE LET contour == cs[i + 1]
             next == IF RegionEmpty(image, contour.moment[1], contour.moment[2])
                     THEN acc
                     ELSE Append(acc, ExtractedJewel(image, i, contour))
         IN  IF Len(next) >= 0 THEN ExtractFrom(i + 1, cs, image, next) ELSE acc

ExtractJewelInfo(cs, image) == ExtractFrom(0, cs, image, <<>>)

\* grid = [[None for _ in range(8)] for _ in range(8)]
EmptyDict == JewelDict(-1, -1, -1, <<0, 0>>, <<0, 0, 0>>, FALSE, FALSE, FALSE)
EmptyGrid == [cells |-> [i \in Cells |-> None], dicts |-> [i \in Cells |-> EmptyDict]]

\* (center[0] - ideal_x) ** 2 + (center[1] - ideal_y) ** 2 with
\* ideal_x = (col + 0.5) * grid_width, ideal_y = (row + 0.5) * grid_height,
\* times 16 * 16: the ideal centre has sixteenths of a pixel and every value
\* is exact in floating point
IdealDistance(size, row, col, center) ==
    LET dx == 16 * center[1] - (2 * col + 1) * size[1]
        dy == 16 * center[2] - (2 * row + 1) * size[2]
    IN  dx * dx + dy * dy

\* one turn of the loop of organize_jewels_into_grid
\* (the faulty variant keeps the jewel that comes last)
PlaceJewelLast(g, jewel, size) ==
    [cells |-> [g.cells EXCEPT ![Idx(jewel.row, jewel.col)] = Jewel],
     dicts |-> [g.dicts EXCEPT ![Idx(jewel.row, jewel.col)] = jewel]]

PlaceJewel(g, jewel, size) ==
    LET at == Idx(jewel.row, jewel.col)
        placed == [cells |-> [g.cells EXCEPT ![at] = Jewel],
                   dicts |-> [g.dicts EXCEPT ![at] = jewel]]
    IN  IF g.cells[at] # None
        THEN LET existing_dist == IdealDistance(size, jewel.row, jewel.col, g.dicts[at].center)
                 new_dist == IdealDistance(size, jewel.row, jewel.col, jewel.center)
             IN  IF new_dist < existing_dist THEN placed ELSE g
        ELSE placed

RECURSIVE OrganizeFrom(_, _, _, _)
OrganizeFrom(k, js, size, g) ==
    IF k > Len(js) THEN g
    ELSE LET next == PlaceJewel(g, js[k], size)
         IN  IF next.cells[0] >= 0 THEN OrganizeFrom(k + 1, js, size, next) ELSE g

\* organize_jewels_into_grid(jewels, grid_width, grid_height); size is
\* (8 * grid_width, 8 * grid_height)
\* (the faulty variant keeps the grid of the cycle before and places the
\* jewels into it)
OrganizeIntoPreviousGrid(js, size) ==
    OrganizeFrom(1, js, size, IF jewel_grid = NoGrid THEN EmptyGrid ELSE jewel_grid)

OrganizeJewelsIntoGrid(js, size) == OrganizeFrom(1, js, size, EmptyGrid)

\* missing_positions: the cells that are None
MissingPositions(g) == {i \in Cells : g.cells[i] = None}

\* fill_missing_positions: every missing cell whose pooled samples are not
\* empty gets a synthetic jewel at the centre of the cell (the turns of the
\* loop do not depend on each other)
\* (the faulty variant takes the median of all pooled pixels, dark ones too)
FillMissingPositionsUnfiltered(g, image) ==
    LET missing_positions == MissingPositions(g)
    IN  [cells |-> [i \in Cells |-> IF i \in missing_positions THEN Jewel ELSE g.cells[i]],
         dicts |-> [i \in Cells |->
                      IF i \in missing_positions
                      THEN JewelDict(1000 + Cardinality(missing_positions), i \div N, i % N,
                                     CellCenter(image, i \div N, i % N),
                                     MedianColor(image.tiles[i].pool),
                                     FALSE, TRUE, FALSE)
                      ELSE g.dicts[i]]]

FillMissingPositions(g, image) ==
    LET missing_positions == MissingPositions(g)
        filled == {i \in missing_positions : SamplePooled(image, i \div N, i % N) # NoPixels}
    IN  [cells |-> [i \in Cells |-> IF i \in filled THEN Jewel ELSE g.cells[i]],
         dicts |-> [i \in Cells |->
                      IF i \in filled
                      THEN JewelDict(1000 + Cardinality(missing_positions), i \div N, i % N,
                                     CellCenter(image, i \div N, i % N),
                                     SamplePooled(image, i \div N, i % N),
                                     FALSE, TRUE, FALSE)
                      ELSE g.dicts[i]]]

\* the rows special_handling_for_first_column re-samples with success: the
\* cell of column 0 is None or has the key 'synthetic', and the wide window
\* has pixels above the floor
\* (the faulty variant re-samples only the cells that are None)
ResampledWhereNone(g, image) ==
    {row \in 0..(N - 1) :
        /\ g.cells[Idx(row, 0)] = None
        /\ SampleWide(image, row) # NoPixels}

Resampled(g, image) ==
    {row \in 0..(N - 1) :
        /\ g.cells[Idx(row, 0)] = None \/ g.dicts[Idx(row, 0)].synthetic
        /\ SampleWide(image, row) # NoPixels}

\* special_handling_for_first_column: a new jewel where the cell is None, the
\* colour and the key 'special' written where it is synthetic
\* (the faulty variant blends the new colour into the one the cell has)
SpecialHandlingBlend(g, image) ==
    LET rows == Resampled(g, image)
    IN  [cells |-> [i \in Cells |-> IF i % N = 0 /\ (i \div N) \in rows THEN Jewel ELSE g.cells[i]],
         dicts |-> [i \in Cells |->
                      IF i % N = 0 /\ (i \div N) \in rows
                      THEN IF g.cells[i] = None
                           THEN JewelDict(2000 + (i \div N), i \div N, 0,
                                          <<Width(image) \div (2 * N), CellCenter(image, i \div N, 0)[2]>>,
                                          SampleWide(image, i \div N), FALSE, FALSE, TRUE)
                           ELSE [g.dicts[i] EXCEPT
                                    !.color = [c \in 1..3 |->
                                                 (g.dicts[i].color[c] + SampleWide(image, i \div N)[c]) \div 2],
                                    !.special = TRUE]
                      ELSE g.dicts[i]]]

SpecialHandlingForFirstColumn(g, image) ==
    LET rows == Resampled(g, image)
    IN  [cells |-> [i \in Cells |-> IF i % N = 0 /\ (i \div N) \in rows THEN Jewel ELSE g.cells[i]],
         dicts |-> [i \in Cells |->
                      IF i % N = 0 /\ (i \div N) \in rows
                      THEN IF g.cells[i] = None
                           THEN JewelDict(2000 + (i \div N), i \div N, 0,
                                          <<Width(image) \div (2 * N), CellCenter(image, i \div N, 0)[2]>>,
                                          SampleWide(image, i \div N), FALSE, FALSE, TRUE)
                           ELSE [g.dicts[i] EXCEPT !.color = SampleWide(image, i \div N),
                                                   !.special = TRUE]
                      ELSE g.dicts[i]]]

\* classify_jewels: jewel['type'] = identify_jewel_type(jewel['color']) for
\* every jewel of the grid (every jewel dict has the key 'color')
\* (the faulty variant leaves out the jewels that no contour produced)
ClassifyJewelsOfContours(g) ==
    [g EXCEPT !.dicts = [i \in Cells |->
        IF g.cells[i] # None /\ g.dicts[i].contour
        THEN [g.dicts[i] EXCEPT !.type = IdentifyJewelType(g.dicts[i].color)]
        ELSE g.dicts[i]]]

ClassifyJewels(g) ==
    [g EXCEPT !.dicts = [i \in Cells |->
        IF g.cells[i] # None
        THEN [g.dicts[i] EXCEPT !.type = IdentifyJewelType(g.dicts[i].color)]
        ELSE g.dicts[i]]]

\* detect_jewels, from the contours on
Assemble(image, cs) ==
    LET js == ExtractJewelInfo(cs, image)
        organized == OrganizeJewelsIntoGrid(js, image.size)
        filled == FillMissingPositions(organized, image)
    IN  SpecialHandlingForFirstColumn(filled, image)

\* detect_jewels: None when create_masks returns None
\* (the faulty variant goes on without a mask)
DetectJewelsUnmasked(image) == Assemble(image, FindContours(image))

DetectJewels(image) ==
    IF ~image.masks THEN NoGrid
    ELSE Assemble(image, FindContours(image))

-----------------------------------------------------------------------------
(* The images handed to the detector *)

\* the capture of window_manager.py and a square image of 100-pixel cells
Sizes == {<<800, 800>>, CaptureSize}

\* background colours: below both darkness floors, and between the two
Dark == <<10, 10, 10>>
Dim == <<35, 40, 35>>

\* what is in the cells: a jewel of the pattern in every cell ("plain"); some
\* cells without a jewel, two of them in column 0, and a dim one ("dark");
\* a column 0 whose wide window has another median than the middle of the
\* cell, with one cell that is bright only outside the wide window ("shaded");
\* cells whose pooled windows hold pixels of several colours, dark ones among
\* them ("mixed")
Layouts == {"plain", "dark", "shaded", "mixed"}

\* the tiles of the "mixed" layout that are not plain: two bright pixels whose
\* mean has a half; one bright pixel among dark ones; dark ones only; three
\* bright pixels of different colours
MixedTiles ==
    (Idx(5, 0) :> [spot |-> <<60, 60, 193>>, pool |-> << <<60, 60, 193>>, <<61, 61, 192>> >>,
                   wide |-> <<110, 192, 110>>])
    @@ (Idx(5, 1) :> [spot |-> <<60, 60, 193>>, pool |-> << <<60, 60, 193>>, <<61, 61, 192>> >>,
                      wide |-> <<60, 60, 193>>])
    @@ (Idx(5, 2) :> [spot |-> Dark, pool |-> <<Dark, Dark, Dark, <<187, 110, 60>> >>,
                      wide |-> Dark])
    @@ (Idx(6, 3) :> [spot |-> Dark, pool |-> <<Dark, Dark>>, wide |-> Dark])
    @@ (Idx(7, 7) :> [spot |-> <<60, 60, 192>>,
                      pool |-> << <<60, 60, 192>>, <<187, 110, 60>>, <<110, 192, 110>> >>,
                      wide |-> <<60, 60, 192>>])

Tiles(p, layout) ==
    [i \in Cells |->
        LET row == i \div N
            col == i % N
            t == TypicalColor(Pattern(p, row, col))
            plain == [spot |-> t, pool |-> <<t>>, wide |-> t]
        IN  CASE layout = "plain" -> plain
              [] layout = "dark" ->
                    IF i \in {Idx(0, 0), Idx(2, 5), Idx(6, 0), Idx(7, 7)}
                    THEN [spot |-> Dark, pool |-> <<Dark>>, wide |-> Dark]
                    ELSE IF i = Idx(5, 0)
                         THEN [spot |-> Dim, pool |-> <<Dim>>, wide |-> Dim]
                         ELSE plain
              [] layout = "mixed" ->
                    IF i \in DOMAIN MixedTiles THEN MixedTiles[i] ELSE plain
              [] layout = "shaded" ->
                    IF col # 0 THEN plain
                    ELSE IF row = 1 \/ row = 6
                         THEN [spot |-> Dark, pool |-> <<Dark, t>>, wide |-> Dark]
                         ELSE [spot |-> t, pool |-> <<t>>,
                               wide |-> TypicalColor(Pattern(p, row, 1))]]

\* a contour of a jewel in a cell: as large as the expected area, its
\* centroid off the centre of the cell by off
Blob(size, cell, off, area2) ==
    LET center == CellCenter([size |-> size], cell \div N, cell % N)
    IN  [area2 |-> area2, moment |-> <<center[1] + off[1], center[2] + off[2]>>]

ExpectedArea2(size) == (size[1] * size[2]) \div (N * N)

\* where in its cell the jewel of a cell sits
Offset(cell) == <<4 * ((cell % 3) - 1), 3 * (((cell \div N) % 3) - 1)>>

\* how many cells have a contour: the cells 0 .. n-1
BlobCounts == {10, 39, 40, 64}

\* twice the areas at and next to the two ends of the range of the filter
AreaProbes(size) ==
    LET wh == size[1] * size[2]
    IN  {wh \div (N * N * 10), wh \div (N * N * 10) + 1,
         (2 * wh) \div (N * N) - 1, (2 * wh) \div (N * N), (2 * wh) \div (N * N) + 1}

\* where a second contour of cell 0 has its centroid, off the centre
RivalOffsets == {<<0, 0>>, <<4, 3>>, <<3, -4>>, <<-20, 10>>}

\* one more contour: none, one of a probing area in the first cell that has no
\* contour (cell 0 when all have), or a second one in cell 0
Extras(size) ==
    {[kind |-> "none", area2 |-> 0, off |-> <<0, 0>>]}
    \cup {[kind |-> "area", area2 |-> a, off |-> <<0, 0>>] : a \in AreaProbes(size)}
    \cup {[kind |-> "rival", area2 |-> 0, off |-> o] : o \in RivalOffsets}

Reversed(seq) == [k \in 1..Len(seq) |-> seq[Len(seq) + 1 - k]]

Blobs(size, n, extra, reverse) ==
    LET base == [k \in 1..n |-> Blob(size, k - 1, Offset(k - 1), ExpectedArea2(size))]
        all == CASE extra.kind = "none" -> base
                 [] extra.kind = "area" ->
                       <<Blob(size, n % (N * N), extra.off, extra.area2)>> \o base
                 [] extra.kind = "rival" ->
                       <<Blob(size, 0, extra.off, ExpectedArea2(size))>> \o base
    IN  IF reverse THEN Reversed(all) ELSE all

Image(size, masks, p, layout, n, extra, reverse) ==
    [size |-> size, masks |-> masks, tiles |-> Tiles(p, layout),
     blobs |-> Blobs(size, n, extra, reverse)]

DetectorImages ==
    {Image(size, TRUE, "diagonal", layout, n, extra, reverse) :
        size \in Sizes, layout \in Layouts, n \in BlobCounts,
        extra \in UNION {Extras(sz) : sz \in Sizes}, reverse \in BOOLEAN}

-----------------------------------------------------------------------------
(* The state machine of the detector: the stages of detect_jewels from the   *)
(* contours on, then classify_jewels; the assembly passes and the            *)
(* classification may be run again on the grid they produced; calls records  *)
(* the passes over the grid in the order they run                            *)

InitDetector ==
    /\ img \in DetectorImages
    /\ pc = "start"
    /\ contours = <<>>
    /\ jewels = <<>>
    /\ jewel_grid = NoGrid
    /\ delay = 0
    /\ calls = <<>>
    /\ seen = {}
    /\ first_run = NoGrid
    /\ passes = 0
    /\ DisplayIdle
    /\ grid = [i \in Cells |-> None]
    /\ heap = [i \in Cells |-> NoJewel]
    /\ grid0 = grid
    /\ heap0 = heap
    /\ valid_moves = <<>>
    /\ ranked_moves = <<>>
    /\ color = <<0, 0, 0>>
    /\ best_match = "unset"

find_contours ==
    /\ pc = "start"
    /\ contours' = FindContours(img)
    /\ pc' = "contours"
    /\ UNCHANGED <<img, jewels, jewel_grid, delay, calls, seen, first_run, passes>>
    /\ UNCHANGED <<engine_vars, ranked_moves, display_vars>>

extract_jewel_info ==
    /\ pc = "contours"
    /\ jewels' = ExtractJewelInfo(contours, img)
    /\ pc' = "jewels"
    /\ UNCHANGED <<img, contours, jewel_grid, delay, calls, seen, first_run, passes>>
    /\ UNCHANGED <<engine_vars, ranked_moves, display_vars>>

organize_jewels_into_grid ==
    /\ pc = "jewels"
    /\ jewel_grid' = OrganizeJewelsIntoGrid(jewels, img.size)
    /\ calls' = Append(calls, "organize")
    /\ pc' = "organized"
    /\ UNCHANGED <<img, contours, jewels, delay, seen, first_run, passes>>
    /\ UNCHANGED <<engine_vars, ranked_moves, display_vars>>

\* (the faulty variant runs the first-column pass before it fills the gaps)
fill_missing_positions_last ==
    /\ pc = "organized" \/ (pc = "classified" /\ passes < 2)
    /\ jewel_grid' = FillMissingPositions(SpecialHandlingForFirstColumn(jewel_grid, img), img)
    /\ calls' = calls \o <<"special", "fill">>
    /\ pc' = "assembled"
    /\ UNCHANGED <<img, contours, jewels, delay, seen, first_run, passes>>
    /\ UNCHANGED <<engine_vars, ranked_moves, display_vars>>

fill_missing_positions ==
    /\ pc = "organized" \/ (pc = "classified" /\ passes < 2)
    /\ jewel_grid' = FillMissingPositions(jewel_grid, img)
    /\ calls' = Append(calls, "fill")
    /\ pc' = "filled"
    /\ UNCHANGED <<img, contours, jewels, delay, seen, first_run, passes>>
    /\ UNCHANGED <<engine_vars, ranked_moves, display_vars>>

special_handling_for_first_column ==
    /\ pc = "filled"
    /\ jewel_grid' = SpecialHandlingForFirstColumn(jewel_grid, img)
    /\ calls' = Append(calls, "special")
    /\ pc' = "assembled"
    /\ UNCHANGED <<img, contours, jewels, delay, seen, first_run, passes>>
    /\ UNCHANGED <<engine_vars, ranked_moves, display_vars>>

classify_jewels ==
    /\ pc = "assembled"
    /\ jewel_grid' = ClassifyJewels(jewel_grid)
    /\ first_run' = IF passes = 0 THEN jewel_grid' ELSE first_run
    /\ passes' = passes + 1
    /\ pc' = "classified"
    /\ UNCHANGED <<img, contours, jewels, delay, calls, seen>>
    /\ UNCHANGED <<engine_vars, ranked_moves, display_vars>>

NextDetector ==
    \/ find_contours
    \/ extract_jewel_info
    \/ organize_jewels_into_grid
    \/ fill_missing_positions
    \/ special_handling_for_first_column
    \/ classify_jewels

SpecDetector == InitDetector /\ [][NextDetector]_vars

-----------------------------------------------------------------------------
(* main.py: the main loop *)

\* time.sleep(2.0) at the end of a cycle, time.sleep(5.0) in the handler of
\* an exception
CycleDelay == 2
ErrorDelay == 5

\* what capture_game_board returns: None, or an image of the size of the
\* captured region: a full board, a board with cells without a jewel and with
\* contours in 40 cells only, and an image from which no mask can be made
MainImages ==
    { Image(CaptureSize, TRUE, "rhythm", "plain", 64,
            [kind |-> "none", area2 |-> 0, off |-> <<0, 0>>], FALSE),
      Image(CaptureSize, TRUE, "rhythm", "dark", 40,
            [kind |-> "none", area2 |-> 0, off |-> <<0, 0>>], FALSE),
      Image(CaptureSize, FALSE, "rhythm", "plain", 64,
            [kind |-> "none", area2 |-> 0, off |-> <<0, 0>>], FALSE) }

\* the statements of the body of the loop at which the loop can stand
Stages == {"capture", "detect", "classify", "analyze", "sleep"}

\* ghost: the cycle on the image is remembered the first time, counted later
Remember(memory, image, g, moves) ==
    IF \E e \in memory : e.img = image
    THEN {IF e.img = image THEN [e EXCEPT !.runs = Min(2, e.runs + 1)] ELSE e : e \in memory}
    ELSE memory \cup {[img |-> image, grid |-> g, moves |-> moves, runs |-> 1]}

InitMain ==
    /\ pc = "capture"
    /\ PipelineIdle
    /\ DisplayIdle
    /\ grid = [i \in Cells |-> None]
    /\ heap = [i \in Cells |-> NoJewel]
    /\ grid0 = grid
    /\ heap0 = heap
    /\ valid_moves = <<>>
    /\ ranked_moves = <<>>
    /\ color = <<0, 0, 0>>
    /\ best_match = "unset"

\* img = window_manager.capture_game_board(); if img is not None: ... else
\* the sleep at the end of the body
cycle_capture_game_board ==
    /\ pc = "capture"
    /\ img' \in MainImages \cup {NoImage}
    /\ calls' = <<"capture">>
    /\ delay' = 0
    /\ pc' = IF img' = NoImage THEN "sleep" ELSE "detect"
    /\ UNCHANGED <<contours, jewels, jewel_grid, seen, first_run, passes>>
    /\ UNCHANGED <<engine_vars, ranked_moves, display_vars>>

\* jewel_grid = jewel_detector.detect_jewels(img); if jewel_grid is not None:
\* ... else the sleep at the end of the body
cycle_detect_jewels ==
    /\ pc = "detect"
    /\ jewel_grid' = DetectJewels(img)
    /\ calls' = Append(calls, "detect")
    /\ pc' = IF jewel_grid' = NoGrid THEN "sleep" ELSE "classify"
    /\ UNCHANGED <<img, contours, jewels, delay, seen, first_run, passes>>
    /\ UNCHANGED <<engine_vars, ranked_moves, display_vars>>

\* jewel_grid = jewel_classifier.classify_jewels(jewel_grid)
cycle_classify_jewels ==
    /\ pc = "classify"
    /\ jewel_grid' = ClassifyJewels(jewel_grid)
    /\ calls' = Append(calls, "classify")
    /\ pc' = "analyze"
    /\ UNCHANGED <<img, contours, jewels, delay, seen, first_run, passes>>
    /\ UNCHANGED <<engine_vars, ranked_moves, display_vars>>

\* possible_moves = jewel_ai.analyze_board(jewel_grid, img)
cycle_analyze_board ==
    /\ pc = "analyze"
    /\ LET res == AnalyzeBoard(Extend(jewel_grid.dicts), Arg(jewel_grid.cells))
       IN  /\ ranked_moves' = res.moves
           /\ jewel_grid' = [jewel_grid EXCEPT !.dicts = Restrict(res.heap)]
    /\ calls' = Append(calls, "analyze")
    /\ seen' = Remember(seen, img, jewel_grid', ranked_moves')
    /\ pc' = "sleep"
    /\ UNCHANGED <<img, contours, jewels, delay, first_run, passes>>
    /\ UNCHANGED <<engine_vars, display_vars>>

\* time.sleep(2.0), then the next turn of while True
cycle_sleep ==
    /\ pc = "sleep"
    /\ delay' = CycleDelay
    /\ calls' = Append(calls, "sleep")
    /\ pc' = "capture"
    /\ UNCHANGED <<img, contours, jewels, jewel_grid, seen, first_run, passes>>
    /\ UNCHANGED <<engine_vars, ranked_moves, display_vars>>

\* an exception that is not a keyboard interrupt, raised by a statement of the
\* body: except Exception (raised by the first statement, it is the first
\* event of a new cycle)
\* (the faulty variant lets the exception end the loop)
cycle_exception_fatal ==
    /\ pc \in Stages
    /\ pc' = "exited"
    /\ UNCHANGED <<img, contours, jewels, jewel_grid, delay, calls, seen, first_run, passes>>
    /\ UNCHANGED <<engine_vars, ranked_moves, display_vars>>

cycle_exception ==
    /\ pc \in Stages
    /\ pc' = "backoff"
    /\ calls' = IF pc = "capture" THEN <<>> ELSE calls
    /\ delay' = IF pc = "capture" THEN 0 ELSE delay
    /\ UNCHANGED <<img, contours, jewels, jewel_grid, seen, first_run, passes>>
    /\ UNCHANGED <<engine_vars, ranked_moves, display_vars>>

\* time.sleep(5.0) in the handler, then the next turn of while True
cycle_backoff ==
    /\ pc = "backoff"
    /\ delay' = ErrorDelay
    /\ calls' = Append(calls, "backoff")
    /\ pc' = "capture"
    /\ UNCHANGED <<img, contours, jewels, jewel_grid, seen, first_run, passes>>
    /\ UNCHANGED <<engine_vars, ranked_moves, display_vars>>

\* KeyboardInterrupt: in the body, except KeyboardInterrupt: break; in the
\* sleep of the handler it leaves the loop as well
keyboard_interrupt ==
    /\ pc \in Stages \cup {"backoff"}
    /\ pc' = "exited"
    /\ calls' = Append(calls, "interrupt")
    /\ UNCHANGED <<img, contours, jewels, jewel_grid, delay, seen, first_run, passes>>
    /\ UNCHANGED <<engine_vars, ranked_moves, display_vars>>

NextMain ==
    \/ cycle_capture_game_board
    \/ cycle_detect_jewels
    \/ cycle_classify_jewels
    \/ cycle_analyze_board
    \/ cycle_sleep
    \/ cycle_exception
    \/ cycle_backoff
    \/ keyboard_interrupt

SpecMain == InitMain /\ [][NextMain]_vars

\* time.sleep returns: the loop does not stay in a wait for ever
SpecMainFair ==
    InitMain /\ [][NextMain]_vars /\ WF_vars(cycle_sleep) /\ WF_vars(cycle_backoff)

-----------------------------------------------------------------------------
(* live_display.py: the display and its two threads *)

(***************************************************************************)
(* The analysis thread is the thread of main: JewelAI.__init__ calls       *)
(* start, every analyze_board ends in update_image (through                *)
(* create_moves_visualization), and cleanup calls stop.  The display       *)
(* thread runs _display_loop.  Each step below is one statement of the     *)
(* code, so that the threads interleave between the statements.            *)
(***************************************************************************)

\* self.window_width = 500, self.window_height = 600
WindowSize == <<500, 600>>

\* how many times update_image is called
MaxFrames == 3

\* blank_image = np.zeros((self.window_height, self.window_width, 3)) with
\* the text "Waiting for game board..."
BlankImage == [number |-> -1, size |-> WindowSize]

\* the (new_w, new_h) of update_image: aspect_ratio = w / h; the width of the
\* window and int(new_w / aspect_ratio) when the image is wider than the
\* window, else the height of the window and int(new_h * aspect_ratio)
FitWindow(size) ==
    IF size[1] * WindowSize[2] > WindowSize[1] * size[2]
    THEN <<WindowSize[1], (WindowSize[1] * size[2]) \div size[1]>>
    ELSE <<(WindowSize[2] * size[1]) \div size[2], WindowSize[2]>>

\* cv2.resize(img, (new_w, new_h))
Resize(image) == [number |-> image.number, size |-> FitWindow(image.size)]

InitDisplay ==
    /\ DisplayIdle
    /\ PipelineIdle
    /\ pc = "display"
    /\ grid = [i \in Cells |-> None]
    /\ heap = [i \in Cells |-> NoJewel]
    /\ grid0 = grid
    /\ heap0 = heap
    /\ valid_moves = <<>>
    /\ ranked_moves = <<>>
    /\ color = <<0, 0, 0>>
    /\ best_match = "unset"

\* LiveDisplay.start, called by JewelAI.__init__
start ==
    /\ analysis_pc = "init"
    /\ is_running' = TRUE
    /\ display_pc' = IF ~is_running THEN "setup" ELSE display_pc
    /\ analysis_pc' = "cycle"
    /\ UNCHANGED <<current_image, lock, display_img, frame, last_update>>
    /\ UNCHANGED <<pc, engine_vars, ranked_moves, pipeline_vars>>

\* analyze_board reaches self.update_image(moves_img) with the annotated copy
\* of the image of the cycle
update_image_call ==
    /\ analysis_pc = "cycle"
    /\ frame.number < MaxFrames
    /\ \E size \in Sizes : frame' = [number |-> frame.number + 1, size |-> size]
    /\ analysis_pc' = "acquire"
    /\ UNCHANGED <<current_image, lock, is_running, display_pc, display_img, last_update>>
    /\ UNCHANGED <<pc, engine_vars, ranked_moves, pipeline_vars>>

\* update_image: with self.lock (the thread waits while the lock is held)
\* (the faulty variant takes the lock whoever holds it)
update_image_unlocked ==
    /\ analysis_pc = "acquire"
    /\ lock' = "analysis"
    /\ analysis_pc' = "resize"
    /\ UNCHANGED <<current_image, is_running, display_pc, display_img, frame, last_update>>
    /\ UNCHANGED <<pc, engine_vars, ranked_moves, pipeline_vars>>

update_image_acquire ==
    /\ analysis_pc = "acquire"
    /\ lock = "free"
    /\ lock' = "analysis"
    /\ analysis_pc' = "resize"
    /\ UNCHANGED <<current_image, is_running, display_pc, display_img, frame, last_update>>
    /\ UNCHANGED <<pc, engine_vars, ranked_moves, pipeline_vars>>

\* update_image: self.current_image = cv2.resize(img, (new_w, new_h))
update_image_resize ==
    /\ analysis_pc = "resize"
    /\ current_image' = Resize(frame)
    /\ last_update' = Resize(frame)
    /\ analysis_pc' = "imwrite"
    /\ UNCHANGED <<lock, is_running, display_pc, display_img, frame>>
    /\ UNCHANGED <<pc, engine_vars, ranked_moves, pipeline_vars>>

\* update_image: cv2.imwrite(debug_path, self.current_image), then the end of
\* the with block
update_image_release ==
    /\ analysis_pc = "imwrite"
    /\ lock' = "free"
    /\ analysis_pc' = "cycle"
    /\ UNCHANGED <<current_image, is_running, display_pc, display_img, frame, last_update>>
    /\ UNCHANGED <<pc, engine_vars, ranked_moves, pipeline_vars>>

\* LiveDisplay.stop, called by JewelAI.cleanup when main leaves its loop:
\* is_running = False, then a join of at most one second
stop ==
    /\ analysis_pc = "cycle"
    /\ is_running' = FALSE
    /\ analysis_pc' = "stopped"
    /\ UNCHANGED <<current_image, lock, display_pc, display_img, frame, last_update>>
    /\ UNCHANGED <<pc, engine_vars, ranked_moves, pipeline_vars>>

\* _display_loop: the window and the blank image; an exception ends the thread
display_setup ==
    /\ display_pc = "setup"
    /\ \/ /\ display_pc' = "acquire_blank"
          /\ UNCHANGED is_running
       \/ /\ display_pc' = "done"
          /\ is_running' = FALSE
    /\ UNCHANGED <<current_image, lock, analysis_pc, display_img, frame, last_update>>
    /\ UNCHANGED <<pc, engine_vars, ranked_moves, pipeline_vars>>

\* _display_loop: with self.lock, before the loop
display_acquire_blank ==
    /\ display_pc = "acquire_blank"
    /\ lock = "free"
    /\ lock' = "display"
    /\ display_pc' = "store_blank"
    /\ UNCHANGED <<current_image, is_running, analysis_pc, display_img, frame, last_update>>
    /\ UNCHANGED <<pc, engine_vars, ranked_moves, pipeline_vars>>

\* _display_loop: self.current_image = blank_image, then the end of the with
\* block
display_store_blank ==
    /\ display_pc = "store_blank"
    /\ current_image' = BlankImage
    /\ lock' = "free"
    /\ display_pc' = "loop"
    /\ UNCHANGED <<is_running, analysis_pc, display_img, frame, last_update>>
    /\ UNCHANGED <<pc, engine_vars, ranked_moves, pipeline_vars>>

\* _display_loop: while self.is_running, and cv2.destroyWindow after the loop
display_loop ==
    /\ display_pc = "loop"
    /\ display_pc' = IF is_running THEN "acquire_copy" ELSE "done"
    /\ UNCHANGED <<current_image, lock, is_running, analysis_pc, display_img, frame, last_update>>
    /\ UNCHANGED <<pc, engine_vars, ranked_moves, pipeline_vars>>

\* _display_loop: with self.lock, in the loop
display_acquire_copy ==
    /\ display_pc = "acquire_copy"
    /\ lock = "free"
    /\ lock' = "display"
    /\ display_pc' = "copy"
    /\ UNCHANGED <<current_image, is_running, analysis_pc, display_img, frame, last_update>>
    /\ UNCHANGED <<pc, engine_vars, ranked_moves, pipeline_vars>>

\* _display_loop: display_img = self.current_image.copy() if
\* self.current_image is not None else blank_image, then the end of the with
\* block
\* (the faulty variant keeps the lock while it shows the image)
display_copy_keep_lock ==
    /\ display_pc = "copy"
    /\ display_img' = IF current_image # NoFrame THEN current_image ELSE BlankImage
    /\ display_pc' = "imshow"
    /\ UNCHANGED <<current_image, lock, is_running, analysis_pc, frame, last_update>>
    /\ UNCHANGED <<pc, engine_vars, ranked_moves, pipeline_vars>>

display_copy ==
    /\ display_pc = "copy"
    /\ display_img' = IF current_image # NoFrame THEN current_image ELSE BlankImage
    /\ lock' = "free"
    /\ display_pc' = "imshow"
    /\ UNCHANGED <<current_image, is_running, analysis_pc, frame, last_update>>
    /\ UNCHANGED <<pc, engine_vars, ranked_moves, pipeline_vars>>

\* _display_loop: cv2.imshow, cv2.moveWindow, cv2.waitKey(100); the ESC key
\* ends the loop, an exception ends the thread
display_imshow ==
    /\ display_pc = "imshow"
    /\ \/ /\ display_pc' = "loop"
          /\ is_running' \in {is_running, FALSE}
       \/ /\ display_pc' = "done"
          /\ is_running' = FALSE
    /\ UNCHANGED <<current_image, lock, analysis_pc, display_img, frame, last_update>>
    /\ UNCHANGED <<pc, engine_vars, ranked_moves, pipeline_vars>>

NextDisplay ==
    \/ start
    \/ update_image_call
    \/ update_image_acquire
    \/ update_image_resize
    \/ update_image_release
    \/ stop
    \/ display_setup
    \/ display_acquire_blank
    \/ display_store_blank
    \/ display_loop
    \/ display_acquire_copy
    \/ display_copy
    \/ display_imshow

SpecDisplay == InitDisplay /\ [][NextDisplay]_vars

\* a thread that holds the lock goes on, update_image goes on once it has the
\* lock, and a waiting update_image gets the lock: the display thread leaves
\* it free during cv2.waitKey(100) at every turn of its loop
SpecDisplayFair ==
    /\ InitDisplay
    /\ [][NextDisplay]_vars
    /\ WF_vars(display_store_blank)
    /\ WF_vars(display_copy)
    /\ SF_vars(update_image_acquire)
    /\ WF_vars(update_image_resize)
    /\ WF_vars(update_image_release)

-----------------------------------------------------------------------------
(* Properties of the detector *)

\* the places in img.blobs of the contours that pass the area filter
Passing == {k \in 1..Len(img.blobs) : AreaAccepted(img, img.blobs[k])}

\* the contours of S, in the order of img.blobs
Kept(S) == SelectSeq(img.blobs, LAMBDA c : \E k \in S : img.blobs[k] = c)

\* the contours are 64 circles, one per cell in row-major order, and the one
\* of each cell has the centre and the radius that Placed(row, col, c) says
Circles(cs, Placed(_, _, _)) ==
    /\ Len(cs) = N * N
    /\ \A row, col \in 0..(N - 1) :
          /\ cs[row * N + col + 1].circle
          /\ Placed(row, col, cs[row * N + col + 1])

\* the centre is ((col + 0.5) * width / 8, (row + 0.5) * height / 8) and the
\* radius is 0.4 * min(width / 8, height / 8), exactly
PlacedExactly(row, col, c) ==
    /\ 16 * c.center[1] = (2 * col + 1) * Width(img)
    /\ 16 * c.center[2] = (2 * row + 1) * Height(img)
    /\ 20 * c.radius = Min(Width(img), Height(img))

\* v is the whole number of times that den goes into num
Floor(v, num, den) == den * v <= num /\ num < den * (v + 1)

\* the same, each of the three rounded down to a whole pixel
PlacedOnPixels(row, col, c) ==
    /\ Floor(c.center[1], (2 * col + 1) * Width(img), 16)
    /\ Floor(c.center[2], (2 * row + 1) * Height(img), 16)
    /\ Floor(c.radius, Min(Width(img), Height(img)), 20)

\* C13 as claimed: find_contours returns the 64 circles, centred exactly at
\* the centres of the cells, when fewer than 40 contours pass the area
\* filter, and the passing contours otherwise.
C13_AsClaimed ==
    pc = "contours" =>
        IF Cardinality(Passing) < 40
        THEN Circles(contours, PlacedExactly)
        ELSE contours = Kept(Passing)

\* C13 amended: find_contours returns 64 circles, one per cell, when fewer
\* than 40 contours pass the area filter and the passing contours otherwise;
\* the centre of the circle of a cell and the radius are those of the claim
\* rounded down to whole pixels, which on an 800x800 image is
\* ((col + 0.5) * 100, (row + 0.5) * 100) and 40.
C13_SyntheticBelowForty ==
    pc = "contours" =>
        /\ IF Cardinality(Passing) < 40
           THEN Circles(contours, PlacedOnPixels)
           ELSE contours = Kept(Passing)
        /\ (Cardinality(Passing) < 40 /\ img.size = <<800, 800>>) =>
              Circles(contours, LAMBDA row, col, c :
                  c.center = <<100 * col + 50, 100 * row + 50>> /\ c.radius = 40)

\* some contours passed, fewer than 40, on the image of the capture, whose
\* cells are not a whole number of pixels wide: they were dropped for circles
C13_Witness ==
    /\ pc = "contours"
    /\ img.size = CaptureSize
    /\ Cardinality(Passing) \in 1..39
    /\ Len(contours) = N * N
    /\ contours[1].center = <<52, 53>>

\* the places of the contours whose area A has 0.1 * E <= A <= 2.0 * E for
\* E = (width / 8) * (height / 8) * 0.5; A is area2 / 2
InClaimedRange ==
    {k \in 1..Len(img.blobs) :
        /\ 640 * img.blobs[k].area2 >= Width(img) * Height(img)
        /\ 32 * img.blobs[k].area2 <= Width(img) * Height(img)}

\* C19: the contours that the area filter accepts are those whose area is in
\* [0.1 * E, 2.0 * E], the two ends included: find_contours returns them when
\* they are 40 or more, and the 64 circles when they are fewer.
C19_InclusiveRange ==
    pc = "contours" =>
        IF Cardinality(InClaimedRange) < 40
        THEN Len(contours) = N * N /\ \A k \in 1..Len(contours) : contours[k].circle
        ELSE contours = Kept(InClaimedRange)

\* the candidates that map to a cell: their places in the list of jewels
Candidates(cell) == {k \in 1..Len(jewels) : jewels[k].row * N + jewels[k].col = cell}

\* 256 times the squared Euclidean distance from the centre of candidate k to
\* the ideal centre ((col + 0.5) * width / 8, (row + 0.5) * height / 8) of
\* its cell
ToIdeal(k) ==
    LET x == 16 * jewels[k].center[1] - (2 * jewels[k].col + 1) * img.size[1]
        y == 16 * jewels[k].center[2] - (2 * jewels[k].row + 1) * img.size[2]
    IN  x * x + y * y

\* C20: after organize_jewels_into_grid every cell that has candidates holds
\* one of them, one at the least distance to the ideal centre of the cell
\* among them, in whatever order they come; a cell without candidates is None.
C20_NearestCandidate ==
    pc = "organized" =>
        \A cell \in Cells :
            IF Candidates(cell) = {}
            THEN jewel_grid.cells[cell] = None
            ELSE /\ jewel_grid.cells[cell] # None
                 /\ \E k \in Candidates(cell) :
                       /\ jewel_grid.dicts[cell] = jewels[k]
                       /\ \A j \in Candidates(cell) : ToIdeal(k) <= ToIdeal(j)

\* a cell has two candidates at different distances, and the nearer one, which
\* came second, is in the cell
C20_Witness ==
    /\ pc = "organized"
    /\ \E cell \in Cells : \E j, k \in Candidates(cell) :
          /\ j < k
          /\ ToIdeal(k) < ToIdeal(j)
          /\ jewel_grid.dicts[cell] = jewels[k]
    /\ \E cell \in Cells : Candidates(cell) = {}

\* the colour, type, centre and provenance flags of the jewel of a cell
Facts(g, cell) ==
    IF g.cells[cell] = None THEN <<"None">>
    ELSE <<g.dicts[cell].color, g.dicts[cell].type, g.dicts[cell].center,
           g.dicts[cell].synthetic, g.dicts[cell].special>>

NoEmptyCell(g) == \A cell \in Cells : g.cells[cell] # None

\* C17: gap filling, first-column correction and classification, run again
\* with the same image on a grid without an empty cell, leave the colour, the
\* type, the centre and the provenance flags of every cell as the first run
\* left them.
C17_Idempotent ==
    (pc = "classified" /\ passes = 2 /\ NoEmptyCell(first_run)) =>
        \A cell \in Cells : Facts(jewel_grid, cell) = Facts(first_run, cell)

\* the second run is over, on a full grid with a gap-filled cell in column 0
\* whose colour the correction pass replaced by a different one
C17_Witness ==
    /\ pc = "classified" /\ passes = 2 /\ NoEmptyCell(first_run)
    /\ \E row \in 0..(N - 1) :
          /\ jewel_grid.dicts[row * N].synthetic
          /\ jewel_grid.dicts[row * N].special
          /\ jewel_grid.dicts[row * N].color # SamplePooled(img, row, 0)

\* the pooled pixels of a cell that pass the darkness floor
Accepted(cell) == NonDark(img.tiles[cell].pool)

\* the cell holds a gap-filled jewel whose centre and colour are what
\* Centred(cell, center) and Coloured(color, median2) say, median2 being
\* twice the median of each channel of the accepted pooled pixels
GapFilled(cell, Centred(_, _), Coloured(_, _)) ==
    /\ jewel_grid.cells[cell] # None
    /\ jewel_grid.dicts[cell].synthetic
    /\ Centred(cell, jewel_grid.dicts[cell].center)
    /\ \A c \in 1..3 :
          Coloured(jewel_grid.dicts[cell].color[c],
                   Median2([j \in 1..Len(Accepted(cell)) |-> Accepted(cell)[j][c]]))

\* the centre of the cell, ((col + 0.5) * width / 8, (row + 0.5) * height / 8)
AtIdealCentre(cell, center) ==
    /\ 16 * center[1] = (2 * (cell % N) + 1) * Width(img)
    /\ 16 * center[2] = (2 * (cell \div N) + 1) * Height(img)

\* the same, rounded down to a whole pixel
AtIdealPixel(cell, center) ==
    /\ Floor(center[1], (2 * (cell % N) + 1) * Width(img), 16)
    /\ Floor(center[2], (2 * (cell \div N) + 1) * Height(img), 16)

\* C21 as claimed: after fill_missing_positions a cell that was empty is a
\* gap-filled jewel at the ideal centre of the cell, coloured with the median
\* of the accepted pooled pixels, when a pooled pixel passes the darkness
\* floor, and is empty when none does.
C21_AsClaimed ==
    (pc = "filled" /\ passes = 0) =>
        \A cell \in Cells : Candidates(cell) = {} =>
            IF Accepted(cell) # <<>>
            THEN GapFilled(cell, AtIdealCentre, LAMBDA v, median2 : 2 * v = median2)
            ELSE jewel_grid.cells[cell] = None

\* C21 amended: the same with the centre and the median rounded down to whole
\* numbers: the centre is the whole pixel of the ideal centre and each channel
\* of the colour is the whole part of the median.
C21_GapFill ==
    (pc = "filled" /\ passes = 0) =>
        \A cell \in Cells : Candidates(cell) = {} =>
            IF Accepted(cell) # <<>>
            THEN GapFilled(cell, AtIdealPixel, LAMBDA v, median2 : Floor(v, median2, 2))
            ELSE jewel_grid.cells[cell] = None

\* gap filling has run on the capture: a cell whose pool has dark pixels and
\* one bright pixel has the colour of the bright one, a cell whose median has
\* a half has it dropped, and a cell whose pool is dark is still empty
C21_Witness ==
    /\ pc = "filled" /\ passes = 0
    /\ img.size = CaptureSize
    /\ \A cell \in {Idx(5, 1), Idx(5, 2), Idx(6, 3)} : Candidates(cell) = {}
    /\ jewel_grid.dicts[Idx(5, 2)].synthetic
    /\ jewel_grid.dicts[Idx(5, 2)].color = <<187, 110, 60>>
    /\ jewel_grid.dicts[Idx(5, 1)].color = <<60, 60, 192>>
    /\ Len(Accepted(Idx(5, 1))) = 2
    /\ jewel_grid.cells[Idx(6, 3)] = None

\* the cell of column 0 in the row was empty or gap-filled before the step
OpenBefore(row) ==
    jewel_grid.cells[Idx(row, 0)] = None \/ jewel_grid.dicts[Idx(row, 0)].synthetic

\* after the step the cell holds a jewel marked corrected whose colour is the
\* median of the wide window
CorrectedAfter(row) ==
    /\ jewel_grid'.cells[Idx(row, 0)] # None
    /\ jewel_grid'.dicts[Idx(row, 0)].special
    /\ jewel_grid'.dicts[Idx(row, 0)].color = img.tiles[Idx(row, 0)].wide

\* the step leaves the cell as it was
UntouchedAfter(row) ==
    /\ jewel_grid'.cells[Idx(row, 0)] = jewel_grid.cells[Idx(row, 0)]
    /\ jewel_grid'.dicts[Idx(row, 0)] = jewel_grid.dicts[Idx(row, 0)]

\* C22 as claimed: special_handling_for_first_column overwrites the colour of
\* every cell of column 0 that was empty or gap-filled with the wide re-sample
\* and marks it corrected.
C22_AsClaimed ==
    [][special_handling_for_first_column =>
          \A row \in 0..(N - 1) : OpenBefore(row) => CorrectedAfter(row)]_vars

\* C22 amended: it does so for the cells of column 0 that were empty or
\* gap-filled and whose wide window has a pixel above the darkness floor; the
\* other cells that were empty or gap-filled are left as they were.
C22_FirstColumn ==
    [][special_handling_for_first_column =>
          \A row \in 0..(N - 1) : OpenBefore(row) =>
              IF ChannelSum(img.tiles[Idx(row, 0)].wide) > 100
              THEN CorrectedAfter(row)
              ELSE UntouchedAfter(row)]_vars

\* the pass has run: a gap-filled cell of column 0 is corrected, with a colour
\* that gap filling did not give it, and another gap-filled cell, bright only
\* outside the wide window, is not
C22_Witness ==
    /\ pc = "assembled" /\ passes = 0
    /\ \E row \in 0..(N - 1) :
          /\ jewel_grid.dicts[Idx(row, 0)].synthetic
          /\ jewel_grid.dicts[Idx(row, 0)].special
          /\ jewel_grid.dicts[Idx(row, 0)].color = img.tiles[Idx(row, 0)].wide
          /\ jewel_grid.dicts[Idx(row, 0)].color # SamplePooled(img, row, 0)
    /\ \E row \in 0..(N - 1) :
          /\ jewel_grid.cells[Idx(row, 0)] # None
          /\ jewel_grid.dicts[Idx(row, 0)].synthetic
          /\ ~jewel_grid.dicts[Idx(row, 0)].special

\* C23: when detect_jewels has assembled the grid, collision resolution, gap
\* filling and first-column correction have run once each, in this order, and
\* a cell of column 0 that gap filling filled and whose re-sample found
\* pixels has the colour of the re-sample; the grid is the one detect_jewels
\* returns.
C23_PassOrder ==
    (pc = "assembled" /\ passes = 0) =>
        /\ calls = <<"organize", "fill", "special">>
        /\ \A row \in 0..(N - 1) :
              (/\ Candidates(Idx(row, 0)) = {}
               /\ Accepted(Idx(row, 0)) # <<>>
               /\ ChannelSum(img.tiles[Idx(row, 0)].wide) > 100) =>
                    /\ jewel_grid.cells[Idx(row, 0)] # None
                    /\ jewel_grid.dicts[Idx(row, 0)].color = img.tiles[Idx(row, 0)].wide
        /\ jewel_grid = DetectJewels(img)

\* the three passes have run on a grid with a gap in column 0 for which the
\* two samplings give different colours: the cell has the later one
C23_Witness ==
    /\ pc = "assembled" /\ passes = 0
    /\ calls = <<"organize", "fill", "special">>
    /\ \E row \in 0..(N - 1) :
          /\ Candidates(Idx(row, 0)) = {}
          /\ Accepted(Idx(row, 0)) # <<>>
          /\ SamplePooled(img, row, 0) # img.tiles[Idx(row, 0)].wide
          /\ jewel_grid.dicts[Idx(row, 0)].color = img.tiles[Idx(row, 0)].wide

\* the provenance marks of a jewel: primary for the jewel of a contour, which
\* has neither key, gap-filled for the key 'synthetic', corrected for 'special'
Provenances(jewel) ==
    {p \in {"primary", "gap-filled", "corrected"} :
        \/ p = "primary" /\ ~jewel.synthetic /\ ~jewel.special
        \/ p = "gap-filled" /\ jewel.synthetic
        \/ p = "corrected" /\ jewel.special}

\* C24: at the end of assembly every non-empty cell has exactly one provenance
\* among primary, gap-filled and corrected; none is marked both gap-filled
\* and corrected.
C24_OneProvenance ==
    pc = "assembled" =>
        \A cell \in Cells : jewel_grid.cells[cell] # None =>
            Cardinality(Provenances(jewel_grid.dicts[cell])) = 1

\* v is the place of x among the n equal parts of 0 .. extent, the first or
\* the last part for an x outside of them
PartOf(v, x, extent, n) ==
    /\ v \in 0..(n - 1)
    /\ v > 0 => extent * v <= n * x
    /\ v < n - 1 => n * x < extent * (v + 1)

\* C25: every candidate of extract_jewel_info has the row and the column of
\* the cell that holds its centroid, clamped to 0..7; after collision
\* resolution, after gap filling and after first-column correction every
\* non-empty cell of the grid holds a jewel whose row and col fields are the
\* row and the column of the cell.
C25_RowColFields ==
    /\ pc = "jewels" =>
          \A k \in 1..Len(jewels) :
              /\ PartOf(jewels[k].row, jewels[k].center[2], Height(img), N)
              /\ PartOf(jewels[k].col, jewels[k].center[1], Width(img), N)
    /\ pc \in {"organized", "filled", "assembled"} =>
          \A row, col \in 0..(N - 1) :
              jewel_grid.cells[Idx(row, col)] # None =>
                  /\ jewel_grid.dicts[Idx(row, col)].row = row
                  /\ jewel_grid.dicts[Idx(row, col)].col = col

\* the three passes have run and the grid holds, away from the diagonal, the
\* jewel of a contour, a gap-filled jewel and a corrected one
C25_Witness ==
    /\ pc = "assembled" /\ passes = 0
    /\ \E row, col \in 0..(N - 1) :
          /\ row # col
          /\ jewel_grid.dicts[Idx(row, col)].contour
          /\ jewel_grid.dicts[Idx(row, col)].row = row
          /\ jewel_grid.dicts[Idx(row, col)].col = col
    /\ \E row, col \in 0..(N - 1) :
          /\ row # col
          /\ jewel_grid.dicts[Idx(row, col)].synthetic
          /\ ~jewel_grid.dicts[Idx(row, col)].special
          /\ jewel_grid.dicts[Idx(row, col)].row = row
          /\ jewel_grid.dicts[Idx(row, col)].col = col
    /\ \E row \in 1..(N - 1) :
          /\ jewel_grid.dicts[Idx(row, 0)].special
          /\ jewel_grid.dicts[Idx(row, 0)].row = row
          /\ jewel_grid.dicts[Idx(row, 0)].col = 0

\* the move engine once more: the two directions of a swap, and the moves
\* and scores of rank_moves against the moves of find_valid_moves

\* move r goes from the to cell of move m to its from cell
ReverseOf(m, r) ==
    /\ r.from_row = m.to_row /\ r.from_col = m.to_col
    /\ r.to_row = m.from_row /\ r.to_col = m.from_col

\* no two places of the list hold a move between the same ordered pair of cells
OncePerPair(moves) ==
    \A j, k \in 1..Len(moves) :
        (moves[j].from_row = moves[k].from_row /\ moves[j].from_col = moves[k].from_col
         /\ moves[j].to_row = moves[k].to_row /\ moves[j].to_col = moves[k].to_col) => j = k

\* C29: the list of find_valid_moves holds, with every move, the move back
\* from its to cell to its from cell, and every ordered pair of cells at most
\* once; rank_moves gives a move and the move back the same score.
C29_BothDirections ==
    /\ pc \in {"found", "ranked"} =>
          /\ \A k \in 1..Len(valid_moves) :
                \E j \in 1..Len(valid_moves) : ReverseOf(valid_moves[k], valid_moves[j])
          /\ OncePerPair(valid_moves)
    /\ Returned =>
          /\ OncePerPair(ranked_moves)
          /\ \A k \in 1..Len(ranked_moves) :
                \E j \in 1..Len(ranked_moves) :
                    /\ ReverseOf(ranked_moves[k], ranked_moves[j])
                    /\ ranked_moves[j].score = ranked_moves[k].score

\* rank_moves has returned a move whose score comes from a run through its to
\* cell only, and the move back, whose score comes from its from cell, at
\* another place of the list with the same score; other moves score more
C29_Witness ==
    /\ pc = "ranked"
    /\ \E k, j \in 1..Len(ranked_moves) :
          LET m == ranked_moves[k]
              S == Swapped(InputTypes, m.from_row * N + m.from_col, m.to_row * N + m.to_col)
          IN  /\ ReverseOf(m, ranked_moves[j])
              /\ ~RunOfThree(S, m.from_row, m.from_col)
              /\ RunOfThree(S, m.to_row, m.to_col)
              /\ ranked_moves[j].score = m.score
              /\ \E i \in 1..Len(ranked_moves) : ranked_moves[i].score > m.score

\* a ranked move without its score
Unscored(m) ==
    [from_row |-> m.from_row, from_col |-> m.from_col,
     to_row |-> m.to_row, to_col |-> m.to_col, direction |-> m.direction]

\* C30: rank_moves returns the moves of find_valid_moves, each once and with
\* a score, and nothing else; every score is at least 9, none is 0.
C30_ValidMovesScore ==
    /\ pc = "ranked" =>
          /\ Len(ranked_moves) = Len(valid_moves)
          /\ {Unscored(ranked_moves[k]) : k \in 1..Len(ranked_moves)} = Range(valid_moves)
          /\ Cardinality(Range(valid_moves)) = Len(valid_moves)
    /\ Returned =>
          \A k \in 1..Len(ranked_moves) : ranked_moves[k].score >= MatchLen * MatchLen

\* rank_moves has returned the moves in another order than find_valid_moves
\* found them, one of them with the least score there is, for a run made by
\* the to cell in its column
C30_Witness ==
    /\ pc = "ranked"
    /\ Len(valid_moves) > 2
    /\ \E k \in 1..Len(ranked_moves) : Unscored(ranked_moves[k]) # valid_moves[k]
    /\ \E k \in 1..Len(ranked_moves) :
          LET m == ranked_moves[k]
              S == Swapped(InputTypes, m.from_row * N + m.from_col, m.to_row * N + m.to_col)
          IN  /\ m.score = MatchLen * MatchLen
              /\ ColOfThree(S, m.to_row, m.to_col)
              /\ ~RowOfThree(S, m.to_row, m.to_col)
              /\ ~RunOfThree(S, m.from_row, m.from_col)

-----------------------------------------------------------------------------
(* Properties of the live display *)

\* the analysis thread is inside the with block of update_image
InUpdateImage == analysis_pc \in {"resize", "imwrite"}

\* the display thread is inside one of the two with blocks of _display_loop
InDisplayLoop == display_pc \in {"store_blank", "copy"}

\* C26: the statements of update_image and of _display_loop that read or
\* write current_image run while their thread holds the lock, and the two
\* threads are never inside their locked sections at the same time.
C26_MutualExclusion ==
    /\ InUpdateImage => lock = "analysis"
    /\ InDisplayLoop => lock = "display"
    /\ ~(InUpdateImage /\ InDisplayLoop)

\* the display thread is about to copy a frame of the analysis, under the
\* lock, while update_image is called with the next one
C26_Witness ==
    /\ display_pc = "copy"
    /\ lock = "display"
    /\ analysis_pc = "acquire"
    /\ current_image.number > 0
    /\ frame.number > current_image.number

\* C27 as claimed: update_image never has to wait for the display thread.
C27_NeverWaits == ~(analysis_pc = "acquire" /\ lock = "display")

\* C27 amended: update_image waits for the display thread only while that
\* thread is inside one of its two locked statements, which it leaves without
\* showing anything or waiting for a key, and every call of update_image
\* completes.
C27_WaitsOnlyForCopy ==
    /\ [](lock = "display" => InDisplayLoop)
    /\ (analysis_pc = "acquire") ~> (analysis_pc = "cycle")

\* update_image, called a second time, waits for the lock while the display
\* thread, which shows the first frame, copies current_image
C27_Witness ==
    /\ analysis_pc = "acquire"
    /\ frame.number = 2
    /\ lock = "display"
    /\ display_pc = "copy"
    /\ display_img = last_update
    /\ last_update.number = 1

\* C28: once update_image has stored a frame, current_image is the frame
\* that update_image stored last: the display thread does not put its blank
\* image in its place.
C28_FrameKept == last_update # NoFrame => current_image = last_update

-----------------------------------------------------------------------------
(* Properties of the main loop *)

Last(seq) == seq[Len(seq)]

Called(stage) == \E k \in 1..Len(calls) : calls[k] = stage

\* a point of the image, in whole pixels
InImage(center) ==
    /\ center[1] \in 0..(Width(img) - 1)
    /\ center[2] \in 0..(Height(img) - 1)

\* the grid is about to be handed to analyze_board, or has just been
Handed == pc = "analyze" \/ (Called("analyze") /\ jewel_grid # NoGrid)

\* C12: the grid handed to analyze_board has 8x8 slots, and every slot that
\* is not empty has a type among the five categories (never unset) and a
\* centre that is a pixel of the image; so the move engine reads no unset type.
C12_TypedGrid ==
    Handed =>
        /\ DOMAIN jewel_grid.cells = Cells
        /\ DOMAIN jewel_grid.dicts = Cells
        /\ \A cell \in Cells :
              jewel_grid.cells[cell] # None =>
                  /\ jewel_grid.dicts[cell].type \in CategorySet
                  /\ InImage(jewel_grid.dicts[cell].center)

\* the grid handed over has jewels of contours, a gap-filled jewel, a
\* corrected one and an empty cell
C12_Witness ==
    /\ pc = "analyze"
    /\ \E a, b, c, d \in Cells :
          /\ jewel_grid.cells[a] # None /\ jewel_grid.dicts[a].contour
          /\ jewel_grid.cells[b] # None /\ jewel_grid.dicts[b].synthetic
          /\ jewel_grid.cells[c] # None /\ jewel_grid.dicts[c].special
          /\ jewel_grid.cells[d] = None

\* C14: in a cycle whose image yields no mask, detect_jewels returns None,
\* neither classify_jewels nor analyze_board is called, and the loop comes to
\* its next cycle through one of its waits.
C14_NoMaskNoAnalysis ==
    (img # NoImage /\ ~img.masks /\ Called("detect")) =>
        /\ jewel_grid = NoGrid
        /\ ~Called("classify")
        /\ ~Called("analyze")
        /\ pc \in {"sleep", "backoff", "capture", "exited"}
        /\ pc = "capture" => Last(calls) \in {"sleep", "backoff"} /\ delay > 0

\* the cycle on an image without a mask is over and the next one begins
C14_Witness ==
    /\ pc = "capture"
    /\ img # NoImage /\ ~img.masks
    /\ calls = <<"capture", "detect", "sleep">>

\* a cycle has failed: capture or detection returned None, or an exception
\* was raised
CycleFailed ==
    \/ pc = "sleep" /\ (img = NoImage \/ (Called("detect") /\ jewel_grid = NoGrid))
    \/ pc = "backoff"

\* C15: after a failed cycle the loop begins another cycle, unless the
\* keyboard interrupt ends it; and nothing but the keyboard interrupt ends it.
C15_NoTerminalFailure ==
    /\ [](pc = "exited" => (calls # <<>> /\ Last(calls) = "interrupt"))
    /\ CycleFailed ~> (pc = "capture" \/ pc = "exited")

\* a new cycle begins after the wait that follows an exception
C15_Witness ==
    /\ pc = "capture"
    /\ calls # <<>> /\ Last(calls) = "backoff"
    /\ delay = ErrorDelay

\* the cycle that has just ended: it ran to the end of analyze_board, or
\* detection returned None
CycleSucceeded == Called("analyze") /\ Last(calls) = "sleep"
StageFailed ==
    /\ calls = <<"capture", "detect", "sleep">>
    /\ jewel_grid = NoGrid

\* C16: the loop waits a fixed short delay after a successful cycle, and a
\* longer one after a cycle in which detection returned no result.
C16_LongerAfterStageFailure ==
    pc = "capture" =>
        /\ CycleSucceeded => delay = CycleDelay
        /\ StageFailed => delay > CycleDelay

====
